---- MODULE Spec2Model ----
(***************************************************************************)
(* Model of workers/src/encrypt.ts: the Encrypter class (streaming AES-CBC *)
(* built over the one-shot webcrypto primitive, with a running HMAC) and   *)
(* streamEncrypt (the pump that stages source chunks in a fixed buffer).   *)
(*                                                                         *)
(* Bytes are integers 0..255 and byte arrays are sequences.  AES and       *)
(* SHA-256 are library primitives; they are modelled by a keyed block      *)
(* permutation and a keyed positional checksum that keep the properties    *)
(* the code relies on (CBC chaining, PKCS#7 padding, invertibility, a tag  *)
(* that depends on every byte of its message).                             *)
(***************************************************************************)
EXTENDS Integers, Sequences, FiniteSets, TLC

VARIABLES
    sourceBytes,  \* all bytes the source stream will deliver (the object's content)
    srcPos,       \* number of bytes the source has delivered so far
    srcState,     \* "open" | "done" | "errored" | "cancelled"
    nChunks,      \* chunks delivered so far (capped at MaxChunkCount)
    callerIv,     \* the iv array the caller handed to Encrypter.create
    iv,           \* Encrypter.iv: the running chaining value
    hmac,         \* Encrypter.hmac: the message fed to hmac.update so far
    digests,      \* number of times hmac.digest() was called
    bufferSize,   \* streamEncrypt's effective bufferSize
    plaintext,    \* streamEncrypt's staging buffer `plaintext`
    offset,       \* streamEncrypt's fill offset
    chunk,        \* the rest of the current source chunk
    amtToCopy,    \* the loop body's local amtToCopy while a flush is pending (else 0)
    pc,           \* position of the streamEncrypt call
    err,          \* an exception is propagating to the finally block
    outcome,      \* "none" | "returned" | "thrown"
    inflight,     \* writes handed to the writer and not yet acknowledged
    sink,         \* acknowledged writes, in order (a sequence of byte arrays)
    sinkState,    \* "open" | "errored" | "closed"
    closeCalls,   \* number of writer.close() calls
    calls,        \* log of Encrypter method calls: <<op, argument bytes>>
    hpc,          \* position of the request handler ("none": no request)
    req,          \* the request being handled
    status,       \* the response status (0: no response yet)
    bytesDeleted, \* the bytesDeleted field of a deletion response
    putState,     \* BACKUP_BUCKET.put of /copy: "none" | "pending" | "done" | "failed"
    lenArg,       \* the argument of the encryptedLength call
    lenOut,       \* its result: [throws, value]
    attachments,  \* ATTACHMENT_BUCKET: object key -> object bytes
    backups,      \* BACKUP_BUCKET: object key -> object bytes
    attachments0, \* ATTACHMENT_BUCKET as it was when the request arrived
    backups0,     \* BACKUP_BUCKET as it was when the request arrived
    head,         \* deletionHandler's head: the size found, -1 for null
    interfered,   \* another writer touched the key between head and delete
    cursor,       \* usageHandler's cursor: <<>> for undefined
    totalBytes,   \* usageHandler's totalBytes
    totalObjects, \* usageHandler's totalObjects
    responseBody, \* the JSON body of a list or usage response
    listed        \* the objects a client has received page by page

\* the variables of listHandler, of usageHandler and of their client
listVars == <<cursor, totalBytes, totalObjects, responseBody, listed>>

\* the variables of the request handlers and of the buckets
hvars == <<hpc, req, status, bytesDeleted, putState, lenArg, lenOut,
           attachments, backups, attachments0, backups0, head, interfered, listVars>>

\* the variables of the Encrypter, of streamEncrypt, of its source and sink
pumpVars == <<sourceBytes, srcPos, srcState, nChunks, callerIv, iv, hmac, digests,
              bufferSize, plaintext, offset, chunk, amtToCopy, pc, err, outcome,
              inflight, sink, sinkState, closeCalls, calls>>

vars == <<sourceBytes, srcPos, srcState, nChunks, callerIv, iv, hmac, digests,
          bufferSize, plaintext, offset, chunk, amtToCopy, pc, err, outcome,
          inflight, sink, sinkState, closeCalls, calls, hpc, req, status,
          bytesDeleted, putState, lenArg, lenOut, attachments, backups,
          attachments0, backups0, head, interfered, listVars>>

----------------------------------------------------------------------------
(* Bounds of the model *)

\* longest source object, in bytes
MaxPlainLen == 49

\* the chunk counter saturates here
MaxChunkCount == 2

----------------------------------------------------------------------------
(* Program constants *)

\* AES block size: the literal 16 of encrypt.ts
BLOCK == 16

\* length of an HMAC-SHA-256 digest
TAG_LEN == 32

\* Number.MAX_SAFE_INTEGER, scaled from 2^53 - 1 to 2^10 - 1
MAX_SAFE_INTEGER == 1023

\* mutant: the limit leaves no room for the padding block
MAX_PLAINTEXT_LENGTH_NoPadding == MAX_SAFE_INTEGER - 32 - 16

MAX_PLAINTEXT_LENGTH == MAX_SAFE_INTEGER - 32 - 16 - 16

\* how far past MAX_SAFE_INTEGER the lengths given to encryptedLength go
MaxLengthSlack == 40

\* the default bufferSize 1024 * 1024, scaled to two blocks
DEFAULT_BUFFER_SIZE == 32

----------------------------------------------------------------------------
(* Byte arrays *)

Byte == 0..255

Min(a, b) == IF a < b THEN a ELSE b

Max(a, b) == IF a > b THEN a ELSE b

\* Uint8Array.subarray(begin, end), zero-based, end exclusive; a negative
\* index counts from the end, and both are clamped to the array
subarray(a, begin, end) ==
    LET rel(k) == IF k < 0 THEN Max(Len(a) + k, 0) ELSE Min(k, Len(a))
    IN  SubSeq(a, rel(begin) + 1, rel(end))

\* Uint8Array.set(src, at): copy src into dst starting at index `at`
set(dst, src, at) ==
    [i \in 1..Len(dst) |->
        IF i > at /\ i <= at + Len(src) THEN src[i - at] ELSE dst[i]]

\* new Uint8Array(n): n zero bytes
Zeros(n) == [i \in 1..n |-> 0]

RECURSIVE concat(_)
\* all chunks of a sequence of byte arrays, joined in order
concat(chunks) ==
    IF chunks = <<>> THEN <<>> ELSE Head(chunks) \o concat(Tail(chunks))

RECURSIVE XorBits(_, _)
\* bitwise exclusive or of two naturals, bit by bit
XorBits(a, b) ==
    IF a = 0 THEN b
    ELSE IF b = 0 THEN a
    ELSE ((a + b) % 2) + 2 * XorBits(a \div 2, b \div 2)

\* the same as a table over bytes, computed once
XorTable == [a \in Byte |-> [b \in Byte |-> XorBits(a, b)]]

\* bitwise exclusive or of two bytes
Xor(a, b) == XorTable[a][b]

XorBlock(x, y) == [i \in 1..BLOCK |-> Xor(x[i], y[i])]

----------------------------------------------------------------------------
(* The one-shot primitive: subtle.encrypt({name: 'AES-CBC', iv}, key, data) *)

\* the block cipher: a keyed permutation of 16-byte blocks
EncBlock(key, x) ==
    [i \in 1..BLOCK |->
        (x[(i % BLOCK) + 1] + key[i] + key[i + BLOCK] + 17 * i) % 256]

\* its inverse
DecBlock(key, y) ==
    [i \in 1..BLOCK |->
        LET j == IF i = 1 THEN BLOCK ELSE i - 1
        IN  (y[j] + 1024 - key[j] - key[j + BLOCK] - 17 * j) % 256]

\* PKCS#7: pad to the next block boundary, a whole block when already aligned
Pkcs7Pad(data) ==
    LET n == BLOCK - (Len(data) % BLOCK)
    IN  data \o [i \in 1..n |-> n]

RECURSIVE CbcChain(_, _, _)
\* CBC over whole blocks: each block is xored with the previous ciphertext block
CbcChain(key, chain, padded) ==
    IF padded = <<>> THEN <<>>
    ELSE LET c == EncBlock(key, XorBlock(SubSeq(padded, 1, BLOCK), chain))
         IN  c \o CbcChain(key, c, SubSeq(padded, BLOCK + 1, Len(padded)))

\* subtle.encrypt: pads, then encrypts; returns Len(data) rounded up past the
\* next block boundary
OneShotEncrypt(key, chain, data) == CbcChain(key, chain, Pkcs7Pad(data))

RECURSIVE CbcUnchain(_, _, _)
CbcUnchain(key, chain, ct) ==
    IF ct = <<>> THEN <<>>
    ELSE LET c == SubSeq(ct, 1, BLOCK)
         IN  XorBlock(DecBlock(key, c), chain)
               \o CbcUnchain(key, c, SubSeq(ct, BLOCK + 1, Len(ct)))

\* subtle.decrypt: decrypts whole blocks and strips the PKCS#7 padding;
\* <<-1>> stands for the OperationError of a malformed input
OneShotDecrypt(key, chain, ct) ==
    IF Len(ct) = 0 \/ Len(ct) % BLOCK # 0 THEN <<-1>>
    ELSE LET p == CbcUnchain(key, chain, ct)
             n == p[Len(p)]
         IN  IF n < 1 \/ n > BLOCK THEN <<-1>>
             ELSE IF \E i \in (Len(p) - n + 1)..Len(p) : p[i] # n THEN <<-1>>
             ELSE SubSeq(p, 1, Len(p) - n)

----------------------------------------------------------------------------
(* The keyed hash: crypto.createHmac('sha256', key) ... digest() *)

RECURSIVE RangeSum(_, _, _, _)
\* sum (mod 256) of byte * weight(position, j) over the positions lo..hi of
\* the message, by halves
RangeSum(msg, j, lo, hi) ==
    IF lo > hi THEN 0
    ELSE IF lo = hi
    THEN (msg[lo] * (1 + (((lo - 1) * (j - 1)) % 251))) % 256
    ELSE LET mid == (lo + hi) \div 2
         IN  (RangeSum(msg, j, lo, mid) + RangeSum(msg, j, mid + 1, hi)) % 256

\* sum over the message of byte * weight(position, j), from position i on
WeightedSum(msg, j, i) == RangeSum(msg, j, i, Len(msg))

\* the 32-byte tag of a message: every byte of the tag depends on the key, the
\* length and every byte of the message; byte 1 carries the plain byte sum
Digest(key, msg) ==
    [j \in 1..TAG_LEN |-> (key[j] + j * Len(msg) + WeightedSum(msg, j, 1)) % 256]

\* mutant: any 32 bytes are accepted as the tag
hmacVerifyAny(hmacBytes, key, data) == Len(hmacBytes) = TAG_LEN

\* crypto.subtle.verify for HMAC: the tag is recomputed over the data and
\* compared byte by byte
hmacVerify(hmacBytes, key, data) ==
    /\ Len(hmacBytes) = TAG_LEN
    /\ \A j \in 1..TAG_LEN :
         hmacBytes[j] = (key[j] + j * Len(data) + WeightedSum(data, j, 1)) % 256

----------------------------------------------------------------------------
(* Inputs *)

\* the cipher key and the MAC key of the session (32 bytes each)
AesKey == [i \in 1..32 |-> (7 * i + 3) % 256]

HmacKey == [i \in 1..32 |-> (13 * i + 1) % 256]

\* a well-formed IV, and two of the wrong length (a byte short, a byte long)
GoodIvs == { [i \in 1..BLOCK |-> (29 * i + 101) % 256] }

BadIvs == { Zeros(BLOCK - 1), Zeros(BLOCK + 1) }

\* source objects: L bytes of a ramp for every L up to the bound, and the 17
\* bytes of 0x41 of the specification's scenario
Sources ==
    { [i \in 1..L |-> (37 * i + 5) % 256] : L \in 0..MaxPlainLen }
        \cup { [i \in 1..17 |-> 65] }

\* the bufferSize argument; 0 stands for an omitted (or zero) argument
BufferSizeArgs == {0, 16, 24, 48}

\* the chunk lengths the source may deliver next
ChunkLens(remaining, bsize) ==
    { n \in {0, 1, 3, bsize, remaining} : n <= remaining }

----------------------------------------------------------------------------
(* Encrypter *)

\* Encrypter.encryptedLength: the length of IV || ciphertext || tag for a
\* plaintext of the given length, or a throw when it is too large
encryptedLength(plaintextLength) ==
    IF plaintextLength > MAX_PLAINTEXT_LENGTH
    THEN [throws |-> TRUE, value |-> 0]
    ELSE LET numBlocks == (plaintextLength + 1 + 15) \div 16
         IN  [throws |-> FALSE, value |-> BLOCK + (numBlocks * 16) + 32]

\* encrypt's guard: all but the final buffer must be whole blocks
Aligned(data) == Len(data) % 16 = 0

\* mutant: the primitive's output is taken as it comes
SaneLengthAny(raw, data) == TRUE

\* encrypt's sanity check on the primitive's output
SaneLength(raw, data) == Len(raw) = Len(data) + 16

\* mutant: the padding block is kept
TrimPaddingKept(raw) == raw

\* encrypt drops the padding block the primitive appended
TrimPadding(raw) == subarray(raw, 0, Len(raw) - 16)

\* mutant: the chaining value is never advanced
NextIvStale(cur, encrypted) == cur

\* mutant: the chaining value is the first block of the buffer's ciphertext
NextIvFirstBlock(cur, encrypted) ==
    set(cur, subarray(encrypted, 0, 16), 0)

\* this.iv.set(encrypted.subarray(encrypted.length - 16)): the chaining value
\* after a buffer is the last block of its trimmed ciphertext
NextIv(cur, encrypted) ==
    set(cur, subarray(encrypted, Len(encrypted) - 16, Len(encrypted)), 0)

\* mutant: each update restarts the message
updateRestart(h, data) == data

\* hmac.update(data): the accumulator's message grows by data
update(h, data) == h \o data

\* mutant: an empty tail is not encrypted at all
FinalBlocksSkipEmpty(key, chain, tail) ==
    IF tail = <<>> THEN <<>> ELSE OneShotEncrypt(key, chain, tail)

\* the bytes finish encrypts: the tail, with the primitive's padding kept
FinalBlocks(key, chain, tail) == OneShotEncrypt(key, chain, tail)

----------------------------------------------------------------------------
(* State after construction of the source and the sink; no Encrypter yet *)

\* a bucket holding no object
EmptyBucket == [k \in {} |-> <<>>]

\* no list or usage request has been handled
ListIdle ==
    /\ cursor = <<>>
    /\ totalBytes = 0
    /\ totalObjects = 0
    /\ responseBody = <<>>
    /\ listed = <<>>

\* no request is being handled and both buckets are empty
HandlerIdle ==
    /\ hpc = "none"
    /\ req = [kind |-> "none"]
    /\ status = 0
    /\ bytesDeleted = 0
    /\ putState = "none"
    /\ lenArg = 0
    /\ lenOut = [throws |-> FALSE, value |-> 0]
    /\ attachments = EmptyBucket
    /\ backups = EmptyBucket
    /\ attachments0 = EmptyBucket
    /\ backups0 = EmptyBucket
    /\ head = -1
    /\ interfered = FALSE
    /\ ListIdle

\* the streamEncrypt variables before an Encrypter exists
PumpNew ==
    /\ srcPos = 0
    /\ srcState = "open"
    /\ nChunks = 0
    /\ callerIv = <<>>
    /\ iv = <<>>
    /\ hmac = <<>>
    /\ digests = 0
    /\ bufferSize = 0
    /\ plaintext = <<>>
    /\ offset = 0
    /\ chunk = <<>>
    /\ amtToCopy = 0
    /\ pc = "new"
    /\ err = FALSE
    /\ outcome = "none"
    /\ inflight = <<>>
    /\ sink = <<>>
    /\ sinkState = "open"
    /\ closeCalls = 0
    /\ calls = <<>>

Init ==
    /\ HandlerIdle
    /\ sourceBytes \in Sources
    /\ PumpNew

srcVars == <<sourceBytes, srcPos, srcState, nChunks>>
encVars == <<callerIv, iv, hmac, digests>>
bufVars == <<bufferSize, plaintext, offset, chunk, amtToCopy>>
sinkVars == <<inflight, sink, sinkState, closeCalls>>

\* mutant: the constructor does not check the length of the iv
CreateUnchecked ==
    /\ pc = "new"
    /\ \E v \in GoodIvs \cup BadIvs :
         /\ callerIv' = v
         /\ pc' = "ready"
         /\ iv' = set(Zeros(16), v, 0)
         /\ UNCHANGED outcome
    /\ UNCHANGED <<srcVars, hmac, digests, bufVars, err, sinkVars, calls>>
    /\ UNCHANGED hvars

\* Encrypter.create / the constructor: rejects an iv that is not 16 bytes,
\* otherwise copies it into a fresh array and starts an empty HMAC
Create ==
    /\ pc = "new"
    /\ \E v \in GoodIvs \cup BadIvs :
         /\ callerIv' = v
         /\ IF Len(v) # 16
            THEN /\ pc' = "createFailed"
                 /\ outcome' = "thrown"
                 /\ UNCHANGED iv
            ELSE /\ pc' = "ready"
                 /\ iv' = set(Zeros(16), v, 0)
                 /\ UNCHANGED outcome
    /\ UNCHANGED <<srcVars, hmac, digests, bufVars, err, sinkVars, calls>>
    /\ UNCHANGED hvars

\* mutant: bufferSize is not checked before the writer is taken
StartUnchecked ==
    /\ pc = "ready"
    /\ \E arg \in BufferSizeArgs :
         /\ bufferSize' = IF arg = 0 THEN DEFAULT_BUFFER_SIZE ELSE arg
         /\ pc' = "init"
    /\ UNCHANGED <<srcVars, encVars, plaintext, offset, chunk, amtToCopy,
                   err, outcome, sinkVars, calls>>
    /\ UNCHANGED hvars

\* streamEncrypt up to the try block: default and check bufferSize, take the
\* writer.  A misaligned bufferSize throws before the writer is taken.
Start ==
    /\ pc = "ready"
    /\ \E arg \in BufferSizeArgs :
         LET b == IF arg = 0 THEN DEFAULT_BUFFER_SIZE ELSE arg
         IN  /\ bufferSize' = b
             /\ IF b % 16 # 0
                THEN /\ pc' = "exit"
                     /\ outcome' = "thrown"
                ELSE /\ pc' = "init"
                     /\ UNCHANGED outcome
    /\ UNCHANGED <<srcVars, encVars, plaintext, offset, chunk, amtToCopy,
                   err, sinkVars, calls>>
    /\ UNCHANGED hvars

\* Encrypter.init up to its await: hand this.iv to the writer
InitCall ==
    /\ pc = "init"
    /\ inflight' = Append(inflight, iv)
    /\ calls' = Append(calls, <<"init", <<>>>>)
    /\ pc' = "initW"
    /\ UNCHANGED <<srcVars, encVars, bufVars, err, outcome, sink, sinkState,
                   closeCalls>>
    /\ UNCHANGED hvars

\* the IV write is acknowledged: init feeds the IV to the HMAC and returns;
\* streamEncrypt allocates the staging buffer and starts reading
InitResume ==
    /\ pc = "initW"
    /\ sinkState = "open"
    /\ sink' = Append(sink, Head(inflight))
    /\ inflight' = Tail(inflight)
    /\ hmac' = update(hmac, iv)
    /\ plaintext' = Zeros(bufferSize)
    /\ offset' = 0
    /\ pc' = "read"
    /\ UNCHANGED <<srcVars, callerIv, iv, digests, bufferSize, chunk,
                   amtToCopy, err, outcome, sinkState, closeCalls, calls>>
    /\ UNCHANGED hvars

\* the source delivers its next chunk (any length, zero included)
SourceChunk ==
    /\ pc = "read"
    /\ srcState = "open"
    /\ \E n \in ChunkLens(Len(sourceBytes) - srcPos, bufferSize) :
         /\ chunk' = SubSeq(sourceBytes, srcPos + 1, srcPos + n)
         /\ srcPos' = srcPos + n
    /\ nChunks' = Min(nChunks + 1, MaxChunkCount)
    /\ pc' = "fill"
    /\ UNCHANGED <<sourceBytes, srcState, encVars, bufferSize, plaintext,
                   offset, amtToCopy, err, outcome, sinkVars, calls>>
    /\ UNCHANGED hvars

\* mutant: finish is skipped when the staging buffer is empty
SourceEndSkipEmpty ==
    /\ pc = "read"
    /\ srcState = "open"
    /\ srcPos = Len(sourceBytes)
    /\ srcState' = "done"
    /\ pc' = IF offset = 0 THEN "finally" ELSE "finish"
    /\ UNCHANGED <<sourceBytes, srcPos, nChunks, encVars, bufVars, err,
                   outcome, sinkVars, calls>>
    /\ UNCHANGED hvars

\* the source ends after its last byte
SourceEnd ==
    /\ pc = "read"
    /\ srcState = "open"
    /\ srcPos = Len(sourceBytes)
    /\ srcState' = "done"
    /\ pc' = "finish"
    /\ UNCHANGED <<sourceBytes, srcPos, nChunks, encVars, bufVars, err,
                   outcome, sinkVars, calls>>
    /\ UNCHANGED hvars

\* mutant: a source failure is taken for the end of the stream
SourceFailAsEnd ==
    /\ pc = "read"
    /\ srcState = "open"
    /\ srcState' = "errored"
    /\ pc' = "finish"
    /\ UNCHANGED <<sourceBytes, srcPos, nChunks, encVars, bufVars, err,
                   outcome, sinkVars, calls>>
    /\ UNCHANGED hvars

\* the source fails instead of delivering: the for-await throws
SourceFail ==
    /\ pc = "read"
    /\ srcState = "open"
    /\ srcState' = "errored"
    /\ err' = TRUE
    /\ pc' = "finally"
    /\ UNCHANGED <<sourceBytes, srcPos, nChunks, encVars, bufVars, outcome,
                   sinkVars, calls>>
    /\ UNCHANGED hvars

\* mutant: what does not fit the staging buffer is dropped
RestOfChunkDropped(c, amt) == <<>>

\* what is left of the chunk after amt bytes were taken, <<>> and "read"
\* standing for null
RestOfChunk(c, amt) == IF amt < Len(c) THEN subarray(c, amt, Len(c)) ELSE <<>>

\* mutant: the do-while never sees the end of the chunk
AfterChunkNever(c, amt) == "fill"

\* mutant: the loop body runs once per chunk
AfterChunkOnce(c, amt) == "read"

\* where the loop goes after amt bytes were taken: round again, or next chunk
AfterChunk(c, amt) == IF amt < Len(c) THEN "fill" ELSE "read"

\* mutant: the buffer is flushed as soon as it holds one block
FillFlushAtBlock ==
    /\ pc = "fill"
    /\ LET amt == Min(Len(plaintext) - offset, Len(chunk))
       IN  /\ plaintext' = set(plaintext, subarray(chunk, 0, amt), offset)
           /\ offset' = offset + amt
           /\ IF offset + amt >= BLOCK
              THEN /\ pc' = "encrypt"
                   /\ amtToCopy' = amt
                   /\ UNCHANGED chunk
              ELSE /\ chunk' = RestOfChunk(chunk, amt)
                   /\ pc' = AfterChunk(chunk, amt)
                   /\ amtToCopy' = 0
    /\ UNCHANGED <<srcVars, encVars, bufferSize, err, outcome, sinkVars, calls>>
    /\ UNCHANGED hvars

\* mutant: the chunk bytes are copied to the start of the staging buffer
\* instead of to the fill offset
FillAtStart ==
    /\ pc = "fill"
    /\ LET amt == Min(Len(plaintext) - offset, Len(chunk))
       IN  /\ plaintext' = set(plaintext, subarray(chunk, 0, amt), 0)
           /\ offset' = offset + amt
           /\ IF offset + amt = Len(plaintext)
              THEN /\ pc' = "encrypt"
                   /\ amtToCopy' = amt
                   /\ UNCHANGED chunk
              ELSE /\ chunk' = RestOfChunk(chunk, amt)
                   /\ pc' = AfterChunk(chunk, amt)
                   /\ amtToCopy' = 0
    /\ UNCHANGED <<srcVars, encVars, bufferSize, err, outcome, sinkVars, calls>>
    /\ UNCHANGED hvars

\* one pass of the do-while body: copy what fits; a full buffer goes to
\* encrypter.encrypt, otherwise the chunk is trimmed and the loop goes on
Fill ==
    /\ pc = "fill"
    /\ LET amt == Min(Len(plaintext) - offset, Len(chunk))
       IN  /\ plaintext' = set(plaintext, subarray(chunk, 0, amt), offset)
           /\ offset' = offset + amt
           /\ IF offset + amt = Len(plaintext)
              THEN /\ pc' = "encrypt"
                   /\ amtToCopy' = amt
                   /\ UNCHANGED chunk
              ELSE /\ chunk' = RestOfChunk(chunk, amt)
                   /\ pc' = AfterChunk(chunk, amt)
                   /\ amtToCopy' = 0
    /\ UNCHANGED <<srcVars, encVars, bufferSize, err, outcome, sinkVars, calls>>
    /\ UNCHANGED hvars

\* mutant: streamEncrypt does not await encrypter.encrypt; the loop goes on
\* while the ciphertext write is pending
EncryptCallNoAwait ==
    /\ pc = "encrypt"
    /\ calls' = Append(calls, <<"encrypt", plaintext>>)
    /\ iv' = NextIv(iv, TrimPadding(OneShotEncrypt(AesKey, iv, plaintext)))
    /\ inflight' = Append(inflight, TrimPadding(OneShotEncrypt(AesKey, iv, plaintext)))
    /\ offset' = 0
    /\ chunk' = RestOfChunk(chunk, amtToCopy)
    /\ pc' = AfterChunk(chunk, amtToCopy)
    /\ amtToCopy' = 0
    /\ UNCHANGED <<srcVars, callerIv, hmac, digests, bufferSize, plaintext,
                   err, outcome, sink, sinkState, closeCalls>>
    /\ UNCHANGED hvars

\* Encrypter.encrypt up to its write: check alignment, encrypt one-shot under
\* the chaining value, check the length, trim the padding block, advance the
\* chaining value and hand the ciphertext to the writer
EncryptCall ==
    /\ pc = "encrypt"
    /\ calls' = Append(calls, <<"encrypt", plaintext>>)
    /\ IF ~Aligned(plaintext)
       THEN /\ err' = TRUE
            /\ pc' = "finally"
            /\ UNCHANGED <<iv, inflight>>
       ELSE LET raw == OneShotEncrypt(AesKey, iv, plaintext)
                encrypted == TrimPadding(raw)
            IN  IF ~SaneLength(raw, plaintext)
                THEN /\ err' = TRUE
                     /\ pc' = "finally"
                     /\ UNCHANGED <<iv, inflight>>
                ELSE /\ iv' = NextIv(iv, encrypted)
                     /\ inflight' = Append(inflight, encrypted)
                     /\ pc' = "encryptW"
                     /\ UNCHANGED err
    /\ UNCHANGED <<srcVars, callerIv, hmac, digests, bufVars, outcome, sink,
                   sinkState, closeCalls>>
    /\ UNCHANGED hvars

\* mutant: the offset is not reset after a flush
EncryptResumeNoReset ==
    /\ pc = "encryptW"
    /\ sinkState = "open"
    /\ sink' = Append(sink, Head(inflight))
    /\ inflight' = Tail(inflight)
    /\ hmac' = update(hmac, Head(inflight))
    /\ chunk' = RestOfChunk(chunk, amtToCopy)
    /\ pc' = AfterChunk(chunk, amtToCopy)
    /\ amtToCopy' = 0
    /\ UNCHANGED <<srcVars, callerIv, iv, digests, bufferSize, plaintext,
                   offset, err, outcome, sinkState, closeCalls, calls>>
    /\ UNCHANGED hvars

\* the ciphertext write is acknowledged: encrypt feeds it to the HMAC and
\* returns; streamEncrypt resets the offset and trims the chunk
EncryptResume ==
    /\ pc = "encryptW"
    /\ sinkState = "open"
    /\ sink' = Append(sink, Head(inflight))
    /\ inflight' = Tail(inflight)
    /\ hmac' = update(hmac, Head(inflight))
    /\ offset' = 0
    /\ chunk' = RestOfChunk(chunk, amtToCopy)
    /\ pc' = AfterChunk(chunk, amtToCopy)
    /\ amtToCopy' = 0
    /\ UNCHANGED <<srcVars, callerIv, iv, digests, bufferSize, plaintext,
                   err, outcome, sinkState, closeCalls, calls>>
    /\ UNCHANGED hvars

\* mutant: finish hands the final blocks and the tag to the writer together,
\* without awaiting the first write
FinishCallNoAwait ==
    /\ pc = "finish"
    /\ LET tail == subarray(plaintext, 0, offset)
           last == FinalBlocks(AesKey, iv, tail)
       IN  /\ calls' = Append(calls, <<"finish", tail>>)
           /\ inflight' = inflight \o <<last, Digest(HmacKey, update(hmac, last))>>
    /\ pc' = "finishW"
    /\ UNCHANGED <<srcVars, encVars, bufVars, err, outcome, sink, sinkState,
                   closeCalls>>
    /\ UNCHANGED hvars

\* mutant: finish is given the whole staging buffer, stale bytes included
FinishCallWholeBuffer ==
    /\ pc = "finish"
    /\ calls' = Append(calls, <<"finish", plaintext>>)
    /\ inflight' = Append(inflight, FinalBlocks(AesKey, iv, plaintext))
    /\ pc' = "finishW"
    /\ UNCHANGED <<srcVars, encVars, bufVars, err, outcome, sink, sinkState,
                   closeCalls>>
    /\ UNCHANGED hvars

\* Encrypter.finish up to its first write: encrypt the tail with the padding
\* kept and hand it to the writer
FinishCall ==
    /\ pc = "finish"
    /\ LET tail == subarray(plaintext, 0, offset)
       IN  /\ calls' = Append(calls, <<"finish", tail>>)
           /\ inflight' = Append(inflight, FinalBlocks(AesKey, iv, tail))
    /\ pc' = "finishW"
    /\ UNCHANGED <<srcVars, encVars, bufVars, err, outcome, sink, sinkState,
                   closeCalls>>
    /\ UNCHANGED hvars

\* the final ciphertext write is acknowledged: finish feeds it to the HMAC,
\* takes the digest and hands the tag to the writer
FinishResume ==
    /\ pc = "finishW"
    /\ sinkState = "open"
    /\ sink' = Append(sink, Head(inflight))
    /\ hmac' = update(hmac, Head(inflight))
    /\ digests' = digests + 1
    /\ inflight' = Append(Tail(inflight), Digest(HmacKey, update(hmac, Head(inflight))))
    /\ pc' = "tagW"
    /\ UNCHANGED <<srcVars, callerIv, iv, bufVars, err, outcome, sinkState,
                   closeCalls, calls>>
    /\ UNCHANGED hvars

\* the tag write is acknowledged: finish returns and the try block ends
TagResume ==
    /\ pc = "tagW"
    /\ sinkState = "open"
    /\ sink' = Append(sink, Head(inflight))
    /\ inflight' = Tail(inflight)
    /\ pc' = "finally"
    /\ UNCHANGED <<srcVars, encVars, bufVars, err, outcome, sinkState,
                   closeCalls, calls>>
    /\ UNCHANGED hvars

\* the one-shot primitive rejects: encrypt or finish throws before writing
PrimitiveFail ==
    /\ pc \in {"encrypt", "finish"}
    /\ calls' = Append(calls, <<pc, IF pc = "encrypt" THEN plaintext
                                     ELSE subarray(plaintext, 0, offset)>>)
    /\ err' = TRUE
    /\ pc' = "finally"
    /\ UNCHANGED <<srcVars, encVars, bufVars, outcome, sinkVars>>
    /\ UNCHANGED hvars

\* mutant: after a rejected write the operation is called again
WriteFailRetry ==
    /\ pc \in {"initW", "encryptW", "finishW", "tagW"}
    /\ sinkState = "open"
    /\ inflight' = <<>>
    /\ sinkState' = "errored"
    /\ err' = TRUE
    /\ pc' = IF pc = "initW" THEN "init"
             ELSE IF pc = "encryptW" THEN "encrypt" ELSE "finish"
    /\ UNCHANGED <<srcVars, encVars, bufVars, outcome, sink, closeCalls, calls>>
    /\ UNCHANGED hvars

\* the sink rejects the pending write: the stream is errored and the await
\* in init, encrypt or finish throws
WriteFail ==
    /\ pc \in {"initW", "encryptW", "finishW", "tagW"}
    /\ sinkState = "open"
    /\ inflight' = <<>>
    /\ sinkState' = "errored"
    /\ err' = TRUE
    /\ pc' = "finally"
    /\ UNCHANGED <<srcVars, encVars, bufVars, outcome, sink, closeCalls, calls>>
    /\ UNCHANGED hvars

\* an exception that left the for-await loop body cancels the source
SourceAfter == IF srcState = "open" /\ err THEN "cancelled" ELSE srcState

\* mutant: the finally block swallows the pending exception
SettleSwallowed(e) == "returned"

\* how the call ends once close() has resolved: a pending exception is
\* rethrown, otherwise streamEncrypt returns
Settle(e) == IF e THEN "thrown" ELSE "returned"

\* the finally block: await writer.close(), which succeeds on an open sink;
\* then the pending exception, if any, goes on to the caller
Close ==
    /\ pc = "finally"
    /\ sinkState = "open"
    /\ closeCalls' = closeCalls + 1
    /\ sinkState' = "closed"
    /\ srcState' = SourceAfter
    /\ outcome' = Settle(err)
    /\ pc' = "exit"
    /\ UNCHANGED <<sourceBytes, srcPos, nChunks, encVars, bufVars, err,
                   inflight, sink, calls>>
    /\ UNCHANGED hvars

\* the finally block when close() rejects (always so on an errored sink):
\* the close error reaches the caller
CloseFail ==
    /\ pc = "finally"
    /\ closeCalls' = closeCalls + 1
    /\ sinkState' = "errored"
    /\ srcState' = SourceAfter
    /\ err' = TRUE
    /\ outcome' = "thrown"
    /\ pc' = "exit"
    /\ UNCHANGED <<sourceBytes, srcPos, nChunks, encVars, bufVars, inflight,
                   sink, calls>>
    /\ UNCHANGED hvars

Next ==
    \/ Create
    \/ Start
    \/ InitCall
    \/ InitResume
    \/ SourceChunk
    \/ SourceEnd
    \/ SourceFail
    \/ Fill
    \/ EncryptCall
    \/ EncryptResume
    \/ FinishCall
    \/ FinishResume
    \/ TagResume
    \/ PrimitiveFail
    \/ WriteFail
    \/ Close
    \/ CloseFail

Spec == Init /\ [][Next]_vars

----------------------------------------------------------------------------
(* Observations used by the properties *)

\* every byte the sink has acknowledged, in order
Output == concat(sink)

\* the plaintext length L
L == Len(sourceBytes)

\* streamEncrypt has returned normally
Success == pc = "exit" /\ outcome = "returned"

\* a is a prefix of b
IsPrefix(a, b) == Len(a) <= Len(b) /\ a = SubSeq(b, 1, Len(a))

\* the arguments of the logged calls of one Encrypter method, in call order
ArgsOf(op) ==
    LET idx == { i \in 1..Len(calls) : calls[i][1] = op }
        RECURSIVE pick(_)
        pick(i) ==
            IF i > Len(calls) THEN <<>>
            ELSE IF i \in idx THEN <<calls[i][2]>> \o pick(i + 1)
            ELSE pick(i + 1)
    IN  pick(1)

\* the wire format: IV || AES-CBC(plaintext) || HMAC(IV || ciphertext)
WireFormat(ivBytes, data) ==
    LET ct == OneShotEncrypt(AesKey, ivBytes, data)
    IN  ivBytes \o ct \o Digest(HmacKey, ivBytes \o ct)

RECURSIVE FlushAll(_, _, _)
\* the ciphertext streamEncrypt produces when the source delivers the whole
\* plaintext as one chunk: each full buffer is flushed through encrypt, the
\* rest goes to finish
FlushAll(chain, data, bsize) ==
    IF Len(data) >= bsize
    THEN LET enc == TrimPadding(OneShotEncrypt(AesKey, chain, SubSeq(data, 1, bsize)))
         IN  enc \o FlushAll(NextIv(chain, enc), SubSeq(data, bsize + 1, Len(data)), bsize)
    ELSE FinalBlocks(AesKey, chain, data)

\* the bytes a run over a single chunk writes
SingleChunkOutput(ivBytes, data, bsize) ==
    LET ct == FlushAll(ivBytes, data, bsize)
    IN  ivBytes \o ct \o Digest(HmacKey, update(update(<<>>, ivBytes), ct))

----------------------------------------------------------------------------
(* Properties *)

\* C1: a streamEncrypt run that completes successfully has written exactly
\* encryptedLength(L) = 16 + 16*ceil((L+1)/16) + 32 bytes to the sink, for
\* every plaintext length, chunking and accepted bufferSize.
C1_OutputLength ==
    Success =>
        /\ ~encryptedLength(L).throws
        /\ Len(Output) = encryptedLength(L).value
        /\ Len(Output) = 16 + 16 * ((L + 16) \div 16) + 32

\* a successful run over several chunks with at least one flush and a tail
C1_Witness ==
    /\ Success
    /\ nChunks >= 2
    /\ L > bufferSize
    /\ L % 16 # 0

\* C2: the ciphertext section of the output (bytes [16, len-32)) equals one
\* one-shot padded CBC encryption of the whole plaintext under the caller's
\* IV, and decrypting it under that IV gives the plaintext back.
C2_CiphertextIsOneShotCbc ==
    Success =>
        LET ct == subarray(Output, 16, Len(Output) - 32)
        IN  /\ ct = OneShotEncrypt(AesKey, callerIv, sourceBytes)
            /\ OneShotDecrypt(AesKey, callerIv, ct) = sourceBytes

\* a successful run in which encrypt flushed at least twice before finish
C2_Witness ==
    /\ Success
    /\ Len(ArgsOf("encrypt")) >= 2
    /\ offset > 0

\* C3: for fixed IV, keys, plaintext and bufferSize the bytes written do not
\* depend on how the source splits the plaintext into chunks: every run
\* writes what the run over one L-byte chunk writes.
C3_ChunkingIndependent ==
    Success => Output = SingleChunkOutput(callerIv, sourceBytes, bufferSize)

\* a successful run whose source split a plaintext longer than the buffer
\* into several chunks
C3_Witness ==
    /\ Success
    /\ nChunks >= 2
    /\ L > bufferSize + 1

\* C4: the message fed to the HMAC before it is finalized is exactly the
\* bytes written to the sink before the tag, in order (the IV, then all
\* ciphertext); the last 32 bytes written are the digest of that message.
C4_MacCoversOutput ==
    /\ digests = 0 => hmac = concat(sink)
    /\ digests <= 1
    /\ Success =>
         /\ digests = 1
         /\ Len(sink) >= 3
         /\ hmac = concat(SubSeq(sink, 1, Len(sink) - 1))
         /\ SubSeq(hmac, 1, 16) = callerIv
         /\ sink[Len(sink)] = Digest(HmacKey, hmac)
         /\ Len(sink[Len(sink)]) = 32

\* a successful run with ciphertext from both encrypt and finish
C4_Witness ==
    /\ Success
    /\ Len(ArgsOf("encrypt")) >= 1
    /\ Len(hmac) > 48

\* C5: writes reach the sink in production order (the IV, the ciphertext of
\* each full buffer in input order, the final blocks, the tag), and a write
\* is issued only when no earlier write is still unacknowledged.  The bytes
\* issued so far are compared with the wire format each time a write is
\* pending (the acknowledged writes change at no other time).
C5_WriteOrder ==
    /\ Len(inflight) <= 1
    /\ pc \in {"initW", "encryptW", "finishW", "tagW"} => Len(inflight) = 1
    /\ sink # <<>> => sink[1] = callerIv
    /\ LET issued == sink \o inflight
       IN  \A i \in 2..Len(issued) :
               i <= Len(ArgsOf("encrypt")) + 1 => Len(issued[i]) = bufferSize
    /\ pc \in {"initW", "encryptW", "finishW", "tagW"} =>
         IsPrefix(concat(sink \o inflight),
                  IF digests = 0
                  THEN callerIv \o OneShotEncrypt(AesKey, callerIv, sourceBytes)
                  ELSE WireFormat(callerIv, sourceBytes))

\* the tag write is pending after two flushes and the final blocks
C5_Witness ==
    /\ pc = "tagW"
    /\ Len(sink) >= 4
    /\ Len(inflight) = 1

\* C6 (as claimed): on every exit path of streamEncrypt, the rejection of a
\* misaligned bufferSize included, writer.close() has been called exactly once.
C6_ClosedExactlyOnce ==
    pc = "exit" => closeCalls = 1

\* C7: when the source fails after delivering chunks, finish is never called
\* (no final blocks, no tag), the bytes already written stay (the IV and the
\* ciphertext of every full buffer), the sink is closed before the failure
\* reaches the caller, and the call fails.
C7_SourceFailure ==
    srcState = "errored" =>
        /\ pc \in {"finally", "exit"}
        /\ ArgsOf("finish") = <<>>
        /\ digests = 0
        /\ Output = SubSeq(callerIv \o OneShotEncrypt(AesKey, callerIv, sourceBytes),
                           1, 16 + bufferSize * (srcPos \div bufferSize))
        /\ outcome # "returned"
        /\ pc = "finally" => outcome = "none" /\ closeCalls = 0
        /\ pc = "exit" => outcome = "thrown" /\ closeCalls = 1

\* the call has failed on a source that broke after two chunks and a flush
C7_Witness ==
    /\ srcState = "errored"
    /\ pc = "exit"
    /\ nChunks >= 2
    /\ Len(sink) >= 2

\* C8: streamEncrypt returns normally only when the IV, all ciphertext and
\* the tag were written and the sink was closed; after any failure (source,
\* Encrypter, sink write, close) the call fails.
C8_SuccessMeansComplete ==
    /\ outcome = "returned" =>
         /\ pc = "exit"
         /\ sinkState = "closed"
         /\ closeCalls = 1
         /\ srcState = "done"
         /\ inflight = <<>>
         /\ Output = WireFormat(callerIv, sourceBytes)
    /\ pc = "exit"
         /\ (err \/ srcState # "done" \/ sinkState # "closed" \/ digests # 1)
         => outcome = "thrown"

\* the call has failed on a sink that rejected a write after accepting some
C8_Witness ==
    /\ pc = "exit"
    /\ outcome = "thrown"
    /\ sinkState = "errored"
    /\ srcState = "cancelled"
    /\ Len(sink) >= 2

\* C9: for a source that delivers no bytes, encrypt is never called and
\* exactly 64 bytes are written: the IV, one padded block from finish on an
\* empty tail, and the tag.
C9_EmptySource ==
    Success /\ L = 0 =>
        /\ ArgsOf("encrypt") = <<>>
        /\ ArgsOf("finish") = << <<>> >>
        /\ Len(Output) = 64
        /\ Len(sink) = 3
        /\ sink[1] = callerIv
        /\ sink[2] = OneShotEncrypt(AesKey, callerIv, <<>>)
        /\ Len(sink[2]) = 16
        /\ Len(sink[3]) = 32

\* a successful run over a source that delivered only zero-length chunks
C9_Witness ==
    /\ Success
    /\ L = 0
    /\ nChunks >= 2

\* C10: a successful run calls encrypt exactly floor(L/B) times, each with B
\* bytes, and then finish exactly once with L mod B bytes, also when L is a
\* multiple of B.
C10_CallCounts ==
    Success =>
        LET e == ArgsOf("encrypt")
            f == ArgsOf("finish")
        IN  /\ Len(e) = L \div bufferSize
            /\ \A i \in 1..Len(e) : Len(e[i]) = bufferSize
            /\ Len(f) = 1
            /\ Len(f[1]) = L % bufferSize
            /\ Len(calls) = Len(e) + 2
            /\ calls[1][1] = "init"
            /\ calls[Len(calls)][1] = "finish"

\* a successful run over one chunk that fills the buffer exactly
C10_Witness ==
    /\ Success
    /\ L = bufferSize
    /\ nChunks = 1
    /\ ArgsOf("finish") = << <<>> >>

\* C11: a bufferSize that is not a multiple of 16 makes streamEncrypt fail
\* before any chunk is read and before any byte (the IV included) is written;
\* the chaining value and the MAC accumulator are as they were.
C11_MisalignedRejectedEarly ==
    bufferSize % 16 # 0 =>
        /\ pc = "exit"
        /\ outcome = "thrown"
        /\ srcPos = 0
        /\ nChunks = 0
        /\ srcState = "open"
        /\ sink = <<>>
        /\ inflight = <<>>
        /\ calls = <<>>
        /\ iv = callerIv
        /\ hmac = <<>>
        /\ digests = 0

\* streamEncrypt has rejected bufferSize 24
C11_Witness ==
    /\ pc = "exit"
    /\ bufferSize = 24
    /\ outcome = "thrown"

\* C13: creating an Encrypter with an iv that is not 16 bytes long always
\* fails, and every Encrypter that exists has a 16-byte chaining value.
C13_IvLengthChecked ==
    /\ callerIv # <<>> /\ Len(callerIv) # 16 =>
         /\ pc = "createFailed"
         /\ outcome = "thrown"
         /\ iv = <<>>
         /\ calls = <<>>
    /\ pc \notin {"new", "createFailed"} =>
         /\ Len(callerIv) = 16
         /\ Len(iv) = 16

\* creation was refused for a 15-byte iv
C13_Witness ==
    /\ pc = "createFailed"
    /\ Len(callerIv) = 15

\* ---------------------------------------------------------------------
\* encryptedLength called on an Encrypter with a length the caller chose

InitLength ==
    /\ hpc = "length"
    /\ req = [kind |-> "none"]
    /\ status = 0
    /\ bytesDeleted = 0
    /\ putState = "none"
    /\ lenArg \in 0 .. (MAX_SAFE_INTEGER + MaxLengthSlack)
    /\ lenOut = [throws |-> FALSE, value |-> 0]
    /\ attachments = EmptyBucket
    /\ backups = EmptyBucket
    /\ attachments0 = EmptyBucket
    /\ backups0 = EmptyBucket
    /\ head = -1
    /\ interfered = FALSE
    /\ ListIdle
    /\ sourceBytes = <<>>
    /\ PumpNew

\* encrypter.encryptedLength(lenArg)
LengthCall ==
    /\ hpc = "length"
    /\ pc = "ready"
    /\ lenOut' = encryptedLength(lenArg)
    /\ hpc' = "lengthDone"
    /\ UNCHANGED <<req, status, bytesDeleted, putState, lenArg, attachments,
                   backups, attachments0, backups0, head, interfered, listVars>>
    /\ UNCHANGED pumpVars

NextLength ==
    \/ Create
    \/ LengthCall

SpecLength == InitLength /\ [][NextLength]_vars

\* the least n with 16 * n >= x
CeilBlocks(x) == CHOOSE n \in 0 .. x : 16 * n >= x /\ 16 * (n - 1) < x

\* C14: encryptedLength(L) fails for every L above MAX_SAFE_INTEGER - 64
\* without a result, and for 0 <= L <= MAX_SAFE_INTEGER - 64 it returns
\* 16 + 16 * ceil((L + 1) / 16) + 32, which does not exceed MAX_SAFE_INTEGER.
C14_EncryptedLengthBounded ==
    hpc = "lengthDone" =>
        IF lenArg > MAX_SAFE_INTEGER - 64
        THEN /\ lenOut.throws
             /\ lenOut.value = 0
        ELSE /\ ~lenOut.throws
             /\ lenOut.value = 16 + 16 * CeilBlocks(lenArg + 1) + 32
             /\ lenOut.value <= MAX_SAFE_INTEGER

\* the largest accepted length has been answered with the largest result
C14_Witness ==
    /\ hpc = "lengthDone"
    /\ lenArg = MAX_SAFE_INTEGER - 64
    /\ ~lenOut.throws
    /\ lenOut.value = MAX_SAFE_INTEGER - 15

\* ---------------------------------------------------------------------
\* A caller that holds an Encrypter and a writer of its own and calls init,
\* encrypt and finish itself, one call at a time, in any order

\* how many method calls the caller makes on its Encrypter
MaxDirectCalls == 3

\* the plaintexts the caller passes: empty, five bytes, one block
DirectInputs == { [i \in 1..n |-> (37 * i + 5) % 256] : n \in {0, 5, 16} }

InitDirect ==
    /\ hpc = "direct"
    /\ req = [kind |-> "none"]
    /\ status = 0
    /\ bytesDeleted = 0
    /\ putState = "none"
    /\ lenArg = 0
    /\ lenOut = [throws |-> FALSE, value |-> 0]
    /\ attachments = EmptyBucket
    /\ backups = EmptyBucket
    /\ attachments0 = EmptyBucket
    /\ backups0 = EmptyBucket
    /\ head = -1
    /\ interfered = FALSE
    /\ ListIdle
    /\ sourceBytes = <<>>
    /\ PumpNew

\* the caller is between two calls and may make another
CallerIdle ==
    /\ hpc \in {"direct", "finished"}
    /\ pc = "ready"
    /\ Len(calls) < MaxDirectCalls

\* hmac.digest() has been taken: another hmac.update throws
Finalized == digests > 0

\* Encrypter.init up to its await
DirectInit ==
    /\ CallerIdle
    /\ calls' = Append(calls, <<"init", <<>>>>)
    /\ inflight' = Append(inflight, iv)
    /\ pc' = "dInitW"
    /\ UNCHANGED <<srcVars, encVars, bufVars, err, outcome, sink, sinkState,
                   closeCalls>>
    /\ UNCHANGED hvars

\* the IV write is acknowledged; init feeds the IV to the HMAC and returns
DirectInitResume ==
    /\ pc = "dInitW"
    /\ sinkState = "open"
    /\ sink' = Append(sink, Head(inflight))
    /\ inflight' = Tail(inflight)
    /\ IF Finalized
       THEN outcome' = "thrown" /\ UNCHANGED hmac
       ELSE outcome' = "returned" /\ hmac' = update(hmac, iv)
    /\ pc' = "ready"
    /\ UNCHANGED <<srcVars, callerIv, iv, digests, bufVars, err, sinkState,
                   closeCalls, calls>>
    /\ UNCHANGED hvars

\* mutant: encrypt checks neither the alignment nor the primitive's length
DirectEncryptUnchecked ==
    /\ CallerIdle
    /\ \E data \in DirectInputs :
         /\ calls' = Append(calls, <<"encrypt", data>>)
         /\ LET raw == OneShotEncrypt(AesKey, iv, data)
                encrypted == TrimPadding(raw)
            IN  /\ iv' = NextIv(iv, encrypted)
                /\ inflight' = Append(inflight, encrypted)
                /\ pc' = "dEncryptW"
                /\ UNCHANGED outcome
    /\ UNCHANGED <<srcVars, callerIv, hmac, digests, bufVars, err, sink,
                   sinkState, closeCalls>>
    /\ UNCHANGED hvars

\* mutant: the chaining value is taken from the untrimmed output, that is,
\* from the padding block
DirectEncryptIvFromPadding ==
    /\ CallerIdle
    /\ \E data \in DirectInputs :
         /\ calls' = Append(calls, <<"encrypt", data>>)
         /\ IF ~Aligned(data)
            THEN /\ outcome' = "thrown"
                 /\ UNCHANGED <<iv, inflight, pc>>
            ELSE LET raw == OneShotEncrypt(AesKey, iv, data)
                     encrypted == TrimPadding(raw)
                 IN  IF ~SaneLength(raw, data)
                     THEN /\ outcome' = "thrown"
                          /\ UNCHANGED <<iv, inflight, pc>>
                     ELSE /\ iv' = NextIv(iv, raw)
                          /\ inflight' = Append(inflight, encrypted)
                          /\ pc' = "dEncryptW"
                          /\ UNCHANGED outcome
    /\ UNCHANGED <<srcVars, callerIv, hmac, digests, bufVars, err, sink,
                   sinkState, closeCalls>>
    /\ UNCHANGED hvars

\* Encrypter.encrypt up to its await, on a plaintext of the caller's
DirectEncrypt ==
    /\ CallerIdle
    /\ \E data \in DirectInputs :
         /\ calls' = Append(calls, <<"encrypt", data>>)
         /\ IF ~Aligned(data)
            THEN /\ outcome' = "thrown"
                 /\ UNCHANGED <<iv, inflight, pc>>
            ELSE LET raw == OneShotEncrypt(AesKey, iv, data)
                     encrypted == TrimPadding(raw)
                 IN  IF ~SaneLength(raw, data)
                     THEN /\ outcome' = "thrown"
                          /\ UNCHANGED <<iv, inflight, pc>>
                     ELSE /\ iv' = NextIv(iv, encrypted)
                          /\ inflight' = Append(inflight, encrypted)
                          /\ pc' = "dEncryptW"
                          /\ UNCHANGED outcome
    /\ UNCHANGED <<srcVars, callerIv, hmac, digests, bufVars, err, sink,
                   sinkState, closeCalls>>
    /\ UNCHANGED hvars

\* the ciphertext write is acknowledged; encrypt feeds the ciphertext to the
\* HMAC and returns
DirectEncryptResume ==
    /\ pc = "dEncryptW"
    /\ sinkState = "open"
    /\ sink' = Append(sink, Head(inflight))
    /\ inflight' = Tail(inflight)
    /\ IF Finalized
       THEN outcome' = "thrown" /\ UNCHANGED hmac
       ELSE outcome' = "returned" /\ hmac' = update(hmac, Head(inflight))
    /\ pc' = "ready"
    /\ UNCHANGED <<srcVars, callerIv, iv, digests, bufVars, err, sinkState,
                   closeCalls, calls>>
    /\ UNCHANGED hvars

\* Encrypter.finish up to its first await, on a plaintext of the caller's
DirectFinish ==
    /\ CallerIdle
    /\ \E data \in DirectInputs :
         /\ calls' = Append(calls, <<"finish", data>>)
         /\ inflight' = Append(inflight, FinalBlocks(AesKey, iv, data))
    /\ pc' = "dFinishW"
    /\ UNCHANGED <<srcVars, encVars, bufVars, err, outcome, sink, sinkState,
                   closeCalls>>
    /\ UNCHANGED hvars

\* the final ciphertext write is acknowledged; finish feeds it to the HMAC,
\* takes the digest and hands the tag to the writer
DirectFinishResume ==
    /\ pc = "dFinishW"
    /\ sinkState = "open"
    /\ sink' = Append(sink, Head(inflight))
    /\ IF Finalized
       THEN /\ outcome' = "thrown"
            /\ inflight' = Tail(inflight)
            /\ pc' = "ready"
            /\ UNCHANGED <<hmac, digests>>
       ELSE /\ hmac' = update(hmac, Head(inflight))
            /\ digests' = digests + 1
            /\ inflight' = Append(Tail(inflight),
                                  Digest(HmacKey, update(hmac, Head(inflight))))
            /\ pc' = "dTagW"
            /\ UNCHANGED outcome
    /\ UNCHANGED <<srcVars, callerIv, iv, bufVars, err, sinkState,
                   closeCalls, calls>>
    /\ UNCHANGED hvars

\* the tag write is acknowledged; finish returns to the caller
DirectTagResume ==
    /\ pc = "dTagW"
    /\ sinkState = "open"
    /\ sink' = Append(sink, Head(inflight))
    /\ inflight' = Tail(inflight)
    /\ outcome' = "returned"
    /\ pc' = "ready"
    /\ hpc' = "finished"
    /\ UNCHANGED <<srcVars, encVars, bufVars, err, sinkState, closeCalls,
                   calls>>
    /\ UNCHANGED <<req, status, bytesDeleted, putState, lenArg, lenOut,
                   attachments, backups, attachments0, backups0, head,
                   interfered, listVars>>

\* the one-shot primitive rejects: encrypt or finish throws before writing
DirectPrimitiveFail ==
    /\ CallerIdle
    /\ \E op \in {"encrypt", "finish"}, data \in DirectInputs :
         /\ op = "encrypt" => Aligned(data)
         /\ calls' = Append(calls, <<op, data>>)
    /\ outcome' = "thrown"
    /\ UNCHANGED <<srcVars, encVars, bufVars, err, pc, sinkVars>>
    /\ UNCHANGED hvars

\* the sink rejects the pending write (always so once it is errored): the
\* await in init, encrypt or finish throws
DirectWriteFail ==
    /\ pc \in {"dInitW", "dEncryptW", "dFinishW", "dTagW"}
    /\ inflight' = <<>>
    /\ sinkState' = "errored"
    /\ outcome' = "thrown"
    /\ pc' = "ready"
    /\ UNCHANGED <<srcVars, encVars, bufVars, err, sink, closeCalls, calls>>
    /\ UNCHANGED hvars

NextDirect ==
    \/ Create
    \/ DirectInit
    \/ DirectInitResume
    \/ DirectEncrypt
    \/ DirectEncryptResume
    \/ DirectFinish
    \/ DirectFinishResume
    \/ DirectTagResume
    \/ DirectPrimitiveFail
    \/ DirectWriteFail

SpecDirect == InitDirect /\ [][NextDirect]_vars

\* the call the caller made last
LastCall == calls[Len(calls)]

\* C12: Encrypter.encrypt called with a plaintext whose length is not a
\* multiple of 16 fails, and on that failure nothing has been written or
\* handed to the sink, and the chaining value and the MAC accumulator are
\* what they were before the call.
C12_MisalignedEncryptFails ==
    [][(/\ Len(calls') = Len(calls) + 1
        /\ calls'[Len(calls')][1] = "encrypt"
        /\ ~Aligned(calls'[Len(calls')][2]))
       => (/\ outcome' = "thrown"
           /\ pc' = "ready"
           /\ sink' = sink
           /\ inflight' = inflight
           /\ sinkState' = sinkState
           /\ iv' = iv
           /\ hmac' = hmac
           /\ digests' = digests)]_vars

\* after init and one encrypted block, encrypt has refused five bytes
C12_Witness ==
    /\ Len(calls) = 3
    /\ calls[2][1] = "encrypt"
    /\ LastCall[1] = "encrypt"
    /\ Len(LastCall[2]) = 5
    /\ outcome = "thrown"
    /\ pc = "ready"
    /\ Len(concat(sink)) = 32
    /\ Len(hmac) = 32

\* C17: once finish has completed on an Encrypter, no later call of encrypt
\* or finish on it writes a byte to the sink or takes a second tag.
C17_ConsumedAfterFinish ==
    [][hpc = "finished" =>
         /\ Len(concat(sink')) = Len(concat(sink))
         /\ digests' = digests]_vars

\* ---------------------------------------------------------------------
\* Verification by the receiver of the output

\* the check of authenticateAndDecryptWithIv: the last 32 bytes are the tag
\* of all the bytes before them
authenticate(ciphertext) ==
    hmacVerify(subarray(ciphertext, Len(ciphertext) - 32, Len(ciphertext)),
               HmacKey,
               subarray(ciphertext, 0, Len(ciphertext) - 32))

\* what is added (mod 256) to the byte that is tampered with
TamperDeltas == {1, 16, 128, 255}

\* the output with byte i changed by d
Tampered(out, i, d) == [out EXCEPT ![i] = (out[i] + d) % 256]

\* C15: for every plaintext length, the output of a successful streamEncrypt
\* run passes tag verification, and with any single byte of its IV or of its
\* ciphertext changed it fails tag verification.
C15_TamperDetected ==
    Success =>
        /\ authenticate(Output)
        /\ \A i \in 1 .. (Len(Output) - 32) : \A d \in TamperDeltas :
             ~authenticate(Tampered(Output, i, d))

\* a run over 33 plaintext bytes has succeeded: 16 IV bytes and 48 ciphertext
\* bytes to tamper with
C15_Witness ==
    /\ Success
    /\ L = 33
    /\ Len(Output) = 96
    /\ ~authenticate(Tampered(Output, 1, 1))
    /\ ~authenticate(Tampered(Output, 64, 128))

\* C16: the bytes a streamEncrypt run writes are determined by the IV, the
\* keys and the plaintext alone: every run that has ended, however the source
\* chunked, whatever the bufferSize and wherever it was suspended or failed,
\* has written a prefix of one byte sequence computed from these three (the
\* tag is computed only when the run got past the ciphertext), and every run
\* that returned has written all of it.  Two runs on equal IV, keys and
\* plaintext therefore write identical bytes.
C16_Deterministic ==
    pc = "exit" =>
        LET body == callerIv \o OneShotEncrypt(AesKey, callerIv, sourceBytes)
        IN  /\ IF Len(Output) <= Len(body)
               THEN IsPrefix(Output, body)
               ELSE IsPrefix(Output, WireFormat(callerIv, sourceBytes))
            /\ outcome = "returned" =>
                 Len(Output) = Len(body) + TAG_LEN

\* a run over 49 bytes through a 48-byte buffer, fed in several chunks, has
\* returned
C16_Witness ==
    /\ Success
    /\ L = 49
    /\ bufferSize = 48
    /\ nChunks >= 2
    /\ Len(Output) = 112

\* ---------------------------------------------------------------------
\* DELETE /:bucketId/:id

\* object keys, and the objects a bucket may hold under one
Keys == {"a", "b"}
Objects == { [i \in 1..n |-> (37 * i + 5) % 256] : n \in {3, 5} }

\* every content of a bucket: some of the keys, each with an object
BucketStates == UNION { [S -> Objects] : S \in SUBSET Keys }

\* the bucketId path parameter
BucketIds == {"attachments", "backups", "other"}

\* getBucket: the binding a bucketId names, if any
getBucket(bucketId) ==
    CASE bucketId = "attachments" -> "ATTACHMENT_BUCKET"
      [] bucketId = "backups" -> "BACKUP_BUCKET"
      [] OTHER -> "undefined"

\* the content of a binding
Content(binding) ==
    IF binding = "ATTACHMENT_BUCKET" THEN attachments ELSE backups

\* a bucket without the object under key
Without(bucket, key) == [k \in DOMAIN bucket \ {key} |-> bucket[k]]

\* a bucket with obj stored under key
With(bucket, key, obj) ==
    [k \in DOMAIN bucket \cup {key} |-> IF k = key THEN obj ELSE bucket[k]]

InitDelete ==
    /\ hpc = "dispatch"
    /\ req \in [kind : {"delete"}, bucketId : BucketIds, id : Keys]
    /\ status = 0
    /\ bytesDeleted = 0
    /\ putState = "none"
    /\ lenArg = 0
    /\ lenOut = [throws |-> FALSE, value |-> 0]
    /\ attachments \in BucketStates
    /\ backups \in BucketStates
    /\ attachments0 = attachments
    /\ backups0 = backups
    /\ head = -1
    /\ interfered = FALSE
    /\ ListIdle
    /\ sourceBytes = <<>>
    /\ PumpNew

\* deletionHandler up to its first await: resolve the bucket, answer 404 for
\* an unknown one, else ask for the object's head
DeleteDispatch ==
    /\ hpc = "dispatch"
    /\ req.kind = "delete"
    /\ IF getBucket(req.bucketId) = "undefined"
       THEN status' = 404 /\ hpc' = "done"
       ELSE hpc' = "head" /\ UNCHANGED status
    /\ UNCHANGED <<req, bytesDeleted, putState, lenArg, lenOut, attachments,
                   backups, attachments0, backups0, head, interfered, listVars>>
    /\ UNCHANGED pumpVars

\* bucket.head resolves: null for a missing object, answered with
\* bytesDeleted 0; else the handler asks for the delete
DeleteHead ==
    /\ hpc = "head"
    /\ LET bucket == Content(getBucket(req.bucketId))
       IN  IF req.id \in DOMAIN bucket
           THEN /\ head' = Len(bucket[req.id])
                /\ hpc' = "delete"
                /\ UNCHANGED <<status, bytesDeleted>>
           ELSE /\ head' = -1
                /\ status' = 200
                /\ bytesDeleted' = 0
                /\ hpc' = "done"
    /\ UNCHANGED <<req, putState, lenArg, lenOut, attachments, backups,
                   attachments0, backups0, interfered, listVars>>
    /\ UNCHANGED pumpVars

\* mutant: the handler answers without having deleted
DeleteObjectKept ==
    /\ hpc = "delete"
    /\ status' = 200
    /\ bytesDeleted' = head
    /\ hpc' = "done"
    /\ UNCHANGED <<req, putState, lenArg, lenOut, attachments, backups,
                   attachments0, backups0, head, interfered, listVars>>
    /\ UNCHANGED pumpVars

\* bucket.delete resolves (the key is gone, whether or not it was there) and
\* the handler answers with the size the head reported
DeleteObject ==
    /\ hpc = "delete"
    /\ IF getBucket(req.bucketId) = "ATTACHMENT_BUCKET"
       THEN /\ attachments' = Without(attachments, req.id)
            /\ UNCHANGED backups
       ELSE /\ backups' = Without(backups, req.id)
            /\ UNCHANGED attachments
    /\ status' = 200
    /\ bytesDeleted' = head
    /\ hpc' = "done"
    /\ UNCHANGED <<req, putState, lenArg, lenOut, attachments0, backups0,
                   head, interfered, listVars>>
    /\ UNCHANGED pumpVars

\* another client of the bucket puts or deletes the object under the same
\* key while the handler is suspended in head or delete
OtherWriter ==
    /\ hpc \in {"head", "delete"}
    /\ ~interfered
    /\ interfered' = TRUE
    /\ LET bucket == Content(getBucket(req.bucketId))
       IN  \E after \in { Without(bucket, req.id) }
                           \cup { With(bucket, req.id, o) : o \in Objects } :
             /\ after # bucket
             /\ IF getBucket(req.bucketId) = "ATTACHMENT_BUCKET"
                THEN attachments' = after /\ UNCHANGED backups
                ELSE backups' = after /\ UNCHANGED attachments
    /\ UNCHANGED <<hpc, req, status, bytesDeleted, putState, lenArg, lenOut,
                   attachments0, backups0, head, listVars>>
    /\ UNCHANGED pumpVars

NextDelete ==
    \/ DeleteDispatch
    \/ DeleteHead
    \/ DeleteObject
    \/ OtherWriter

SpecDelete == InitDelete /\ [][NextDelete]_vars

\* C20: with no concurrent writer, DELETE /:bucketId/:id on an existing
\* object answers 200 with bytesDeleted equal to the object's size, the object
\* is gone and every other object of both buckets is as before; on a missing
\* object it answers 200 with bytesDeleted 0 and changes nothing; an unknown
\* bucketId is answered 404 and changes nothing.
C20_Delete ==
    (hpc = "done" /\ req.kind = "delete" /\ ~interfered) =>
        LET binding == getBucket(req.bucketId)
            before == IF binding = "ATTACHMENT_BUCKET" THEN attachments0
                      ELSE backups0
        IN  IF binding = "undefined"
            THEN /\ status = 404
                 /\ attachments = attachments0
                 /\ backups = backups0
            ELSE IF req.id \in DOMAIN before
            THEN /\ status = 200
                 /\ bytesDeleted = Len(before[req.id])
                 /\ req.id \notin DOMAIN Content(binding)
                 /\ Content(binding) = Without(before, req.id)
                 /\ binding = "ATTACHMENT_BUCKET" => backups = backups0
                 /\ binding = "BACKUP_BUCKET" => attachments = attachments0
            ELSE /\ status = 200
                 /\ bytesDeleted = 0
                 /\ attachments = attachments0
                 /\ backups = backups0

\* a 5-byte object was deleted from the backup bucket, which keeps its other
\* object, while the attachment bucket holds an object under the same key
C20_Witness ==
    /\ hpc = "done"
    /\ ~interfered
    /\ req.bucketId = "backups"
    /\ req.id = "a"
    /\ status = 200
    /\ bytesDeleted = 5
    /\ DOMAIN backups = {"b"}
    /\ "a" \in DOMAIN attachments

\* ---------------------------------------------------------------------
\* PUT /copy

\* A string is a sequence of symbols: 0..63 for the characters of the base64
\* alphabet (by their value), PAD for '=' and BAD for any other character.
PAD == 64
BAD == 65

RECURSIVE b64encode(_)
\* Buffer.toString('base64'): three bytes to four symbols, padded with '='
b64encode(bytes) ==
    IF Len(bytes) = 0 THEN <<>>
    ELSE IF Len(bytes) = 1
    THEN <<bytes[1] \div 4, (bytes[1] % 4) * 16, PAD, PAD>>
    ELSE IF Len(bytes) = 2
    THEN <<bytes[1] \div 4, (bytes[1] % 4) * 16 + bytes[2] \div 16,
           (bytes[2] % 16) * 4, PAD>>
    ELSE <<bytes[1] \div 4, (bytes[1] % 4) * 16 + bytes[2] \div 16,
           (bytes[2] % 16) * 4 + bytes[3] \div 64, bytes[3] % 64>>
           \o b64encode(SubSeq(bytes, 4, Len(bytes)))

RECURSIVE FromSextets(_)
\* the bytes that groups of up to four 6-bit values carry; the bits left over
\* in a last group of two or three are dropped
FromSextets(str) ==
    IF Len(str) < 2 THEN <<>>
    ELSE IF Len(str) = 2
    THEN <<str[1] * 4 + str[2] \div 16>>
    ELSE IF Len(str) = 3
    THEN <<str[1] * 4 + str[2] \div 16, (str[2] % 16) * 16 + str[3] \div 4>>
    ELSE <<str[1] * 4 + str[2] \div 16, (str[2] % 16) * 16 + str[3] \div 4,
           (str[3] % 4) * 64 + str[4]>>
           \o FromSextets(SubSeq(str, 5, Len(str)))

\* b64decode: atob removes one or two trailing '=' of a string whose length
\* is a multiple of four, and throws if the rest has a character outside the
\* alphabet or a length of 1 mod 4; <<-1>> stands for null
b64decode(b64) ==
    LET n == Len(b64)
        stripped ==
            IF n > 0 /\ n % 4 = 0 /\ b64[n] = PAD
            THEN IF b64[n - 1] = PAD THEN SubSeq(b64, 1, n - 2)
                 ELSE SubSeq(b64, 1, n - 1)
            ELSE b64
    IN  IF Len(stripped) % 4 = 1 \/ \E i \in 1..Len(stripped) : stripped[i] >= PAD
        THEN <<-1>>
        ELSE FromSextets(stripped)

\* the string 'aa&bb' of the tests
NotBase64 == <<26, 26, BAD, 27, 27>>

\* the objects of the attachment bucket that are copied
CopyObjects == { [i \in 1..n |-> (37 * i + 5) % 256] : n \in {0, 33} }

\* what a fetch of each key from the GCS bucket returns: the status, the
\* Content-Length header (-1 when there is none) and the body.  The body of
\* "c" is shorter than its header says.
GcsFetch ==
    [k \in {"a", "b", "c", "d"} |->
        CASE k = "a" -> [status |-> 200, length |-> 33,
                         body |-> [i \in 1..33 |-> (37 * i + 5) % 256]]
          [] k = "b" -> [status |-> 404, length |-> -1, body |-> <<>>]
          [] k = "c" -> [status |-> 200, length |-> 33,
                         body |-> [i \in 1..31 |-> (37 * i + 5) % 256]]
          [] k = "d" -> [status |-> 200, length |-> -1,
                         body |-> [i \in 1..33 |-> (37 * i + 5) % 256]]]

\* the source descriptors of the requests
SourceDescriptors ==
    [scheme : {"r2"}, key : Keys] \cup [scheme : {"gcs"}, key : DOMAIN GcsFetch]

\* the three string fields: well-formed, not base64, and one byte short
KeyFields ==
    { b64encode(AesKey), NotBase64, b64encode(SubSeq(AesKey, 1, 31)) }
HmacKeyFields ==
    { b64encode(HmacKey), NotBase64, b64encode(SubSeq(HmacKey, 1, 31)) }
IvFields ==
    { b64encode(v) : v \in GoodIvs } \cup { NotBase64, b64encode(Zeros(BLOCK - 1)) }

\* the fields a request body may lack (or carry with the wrong type)
FieldNames ==
    {"encryptionKey", "hmacKey", "iv", "source", "expectedSourceLength", "dst"}

\* the request bodies: any mix of the string fields when no field is missing,
\* and the well-formed strings with one field missing
CopyRequests ==
    { r \in [kind : {"copy"},
             missing : {"none"} \cup FieldNames,
             encryptionKey : KeyFields,
             hmacKey : HmacKeyFields,
             iv : IvFields,
             source : SourceDescriptors,
             expectedSourceLength : {0, 33},
             dst : {"a"}] :
        r.missing # "none" =>
            /\ r.encryptionKey = b64encode(AesKey)
            /\ r.hmacKey = b64encode(HmacKey)
            /\ b64decode(r.iv) \in GoodIvs }

\* isCopyRequest: every field is there and has its type
isCopyRequest(o) == o.missing = "none"

\* source(): the object's stream and length; null for a missing object; a
\* StatusError for a GCS answer that is not ok or has no Content-Length
source(sourceDescriptor) ==
    IF sourceDescriptor.scheme = "r2"
    THEN IF sourceDescriptor.key \in DOMAIN attachments
         THEN [kind |-> "stream",
               length |-> Len(attachments[sourceDescriptor.key]),
               body |-> attachments[sourceDescriptor.key]]
         ELSE [kind |-> "null", length |-> 0, body |-> <<>>]
    ELSE LET fetchSource == GcsFetch[sourceDescriptor.key]
         IN  IF fetchSource.status = 404
             THEN [kind |-> "null", length |-> 0, body |-> <<>>]
             ELSE IF fetchSource.status \notin 200..299 \/ fetchSource.length = -1
             THEN [kind |-> "throw", length |-> 0, body |-> <<>>]
             ELSE [kind |-> "stream", length |-> fetchSource.length,
                   body |-> fetchSource.body]

InitCopy ==
    /\ hpc = "dispatch"
    /\ req \in CopyRequests
    /\ status = 0
    /\ bytesDeleted = 0
    /\ putState = "none"
    /\ lenArg = 0
    /\ lenOut = [throws |-> FALSE, value |-> 0]
    /\ attachments \in { [k \in {"a"} |-> o] : o \in CopyObjects }
    /\ backups \in { EmptyBucket, [k \in Keys |-> [i \in 1..3 |-> 7 * i]] }
    /\ attachments0 = attachments
    /\ backups0 = backups
    /\ head = -1
    /\ interfered = FALSE
    /\ ListIdle
    /\ sourceBytes = <<>>
    /\ PumpNew

\* the handler variables a step of the pump leaves alone, and the pump
\* variables a step of the handler leaves alone
copyFrame == <<req, lenArg, attachments, attachments0, backups0, head,
               bytesDeleted, interfered, listVars>>
pumpAfterSource == <<srcPos, srcState, nChunks, encVars, bufVars, pc, err,
                     outcome, sinkVars, calls>>

\* copyHandler up to its first await on source(): parse the body, check its
\* shape, decode and check the two keys and the iv
CopyValidate ==
    /\ hpc = "dispatch"
    /\ req.kind = "copy"
    /\ LET aesKeyBuf == b64decode(req.encryptionKey)
           hmacKeyBuf == b64decode(req.hmacKey)
           ivBuf == b64decode(req.iv)
       IN  IF \/ ~isCopyRequest(req)
              \/ aesKeyBuf = <<-1>>
              \/ Len(aesKeyBuf) # 32
              \/ hmacKeyBuf = <<-1>>
              \/ Len(hmacKeyBuf) # 32
              \/ ivBuf = <<-1>>
              \/ Len(ivBuf) # 16
           THEN status' = 400 /\ hpc' = "done"
           ELSE hpc' = "source" /\ UNCHANGED status
    /\ UNCHANGED <<copyFrame, putState, lenOut, backups>>
    /\ UNCHANGED pumpVars

\* mutant: the length the request expects is not compared with the source's
CopySourceUnchecked ==
    /\ hpc = "source"
    /\ LET s == source(req.source)
       IN  IF s.kind = "null"
           THEN status' = 404 /\ hpc' = "done" /\ UNCHANGED <<sourceBytes, lenArg>>
           ELSE IF s.kind = "throw"
           THEN status' = 500 /\ hpc' = "done" /\ UNCHANGED <<sourceBytes, lenArg>>
           ELSE /\ sourceBytes' = s.body
                /\ lenArg' = s.length
                /\ hpc' = "create"
                /\ UNCHANGED status
    /\ UNCHANGED <<req, attachments, attachments0, backups0, head,
                   bytesDeleted, interfered, listVars, putState, lenOut, backups>>
    /\ UNCHANGED pumpAfterSource

\* source() resolves: 404 for a missing object, 500 when it threw, 409 when
\* the length differs from the expected one; else its body is what
\* streamEncrypt will read and the handler goes on to Encrypter.create
CopySource ==
    /\ hpc = "source"
    /\ LET s == source(req.source)
       IN  IF s.kind = "null"
           THEN status' = 404 /\ hpc' = "done" /\ UNCHANGED <<sourceBytes, lenArg>>
           ELSE IF s.kind = "throw"
           THEN status' = 500 /\ hpc' = "done" /\ UNCHANGED <<sourceBytes, lenArg>>
           ELSE IF s.length # req.expectedSourceLength
           THEN status' = 409 /\ hpc' = "done" /\ UNCHANGED <<sourceBytes, lenArg>>
           ELSE /\ sourceBytes' = s.body
                /\ lenArg' = s.length
                /\ hpc' = "create"
                /\ UNCHANGED status
    /\ UNCHANGED <<req, attachments, attachments0, backups0, head,
                   bytesDeleted, interfered, listVars, putState, lenOut, backups>>
    /\ UNCHANGED pumpAfterSource

\* Encrypter.create with the decoded iv of the request
CopyCreate ==
    /\ hpc = "create"
    /\ Create
    /\ callerIv' = b64decode(req.iv)

\* the handler between Encrypter.create and streamEncrypt: size the
\* FixedLengthStream with encryptedLength and start the put of its readable
\* side; a throw of create or of encryptedLength is answered with 500
CopyPut ==
    /\ hpc = "create"
    /\ pc \in {"ready", "createFailed"}
    /\ IF pc = "createFailed"
       THEN /\ status' = 500
            /\ hpc' = "done"
            /\ UNCHANGED <<lenOut, putState>>
       ELSE /\ lenOut' = encryptedLength(lenArg)
            /\ IF encryptedLength(lenArg).throws
               THEN status' = 500 /\ hpc' = "done" /\ UNCHANGED putState
               ELSE putState' = "pending" /\ hpc' = "pump" /\ UNCHANGED status
    /\ UNCHANGED <<copyFrame, backups>>
    /\ UNCHANGED pumpVars

\* streamEncrypt is called without a bufferSize
CopyStart ==
    /\ hpc = "pump"
    /\ Start
    /\ bufferSize' = DEFAULT_BUFFER_SIZE

\* a step of streamEncrypt that does not depend on the sink's length limit
CopyStep ==
    /\ hpc = "pump"
    /\ \/ InitCall
       \/ SourceChunk
       \/ SourceEnd
       \/ SourceFail
       \/ Fill
       \/ EncryptCall
       \/ FinishCall
       \/ PrimitiveFail
       \/ WriteFail
       \/ CloseFail

\* the FixedLengthStream acknowledges a write only within its length
CopyWriteAck ==
    /\ hpc = "pump"
    /\ \/ InitResume
       \/ EncryptResume
       \/ FinishResume
       \/ TagResume
    /\ Len(concat(sink')) <= lenOut.value

\* the FixedLengthStream closes only when it holds exactly its length
CopyClose ==
    /\ hpc = "pump"
    /\ Len(Output) = lenOut.value
    /\ Close

\* R2 stores the object once the readable side has ended with all its bytes
PutResolve ==
    /\ putState = "pending"
    /\ sinkState = "closed"
    /\ Len(Output) = lenOut.value
    /\ backups' = With(backups, req.dst, Output)
    /\ putState' = "done"
    /\ UNCHANGED <<copyFrame, hpc, status, lenOut>>
    /\ UNCHANGED pumpVars

\* the put rejects and stores nothing
PutReject ==
    /\ putState = "pending"
    /\ putState' = "failed"
    /\ UNCHANGED <<copyFrame, hpc, status, lenOut, backups>>
    /\ UNCHANGED pumpVars

\* mutant: the handler answers 204 as soon as streamEncrypt has returned
CopyPumpDoneNoAwait ==
    /\ hpc = "pump"
    /\ pc = "exit"
    /\ status' = IF outcome = "thrown" THEN 500 ELSE 204
    /\ hpc' = "done"
    /\ UNCHANGED <<copyFrame, putState, lenOut, backups>>
    /\ UNCHANGED pumpVars

\* streamEncrypt has settled: its exception is answered with 500, otherwise
\* the handler awaits the put
CopyPumpDone ==
    /\ hpc = "pump"
    /\ pc = "exit"
    /\ IF outcome = "thrown"
       THEN status' = 500 /\ hpc' = "done"
       ELSE hpc' = "awaitPut" /\ UNCHANGED status
    /\ UNCHANGED <<copyFrame, putState, lenOut, backups>>
    /\ UNCHANGED pumpVars

\* the put has settled: 204, or 500 when it rejected
CopyRespond ==
    /\ hpc = "awaitPut"
    /\ putState \in {"done", "failed"}
    /\ status' = IF putState = "done" THEN 204 ELSE 500
    /\ hpc' = "done"
    /\ UNCHANGED <<copyFrame, putState, lenOut, backups>>
    /\ UNCHANGED pumpVars

NextCopy ==
    \/ CopyValidate
    \/ CopySource
    \/ CopyCreate
    \/ CopyPut
    \/ CopyStart
    \/ CopyStep
    \/ CopyWriteAck
    \/ CopyClose
    \/ PutResolve
    \/ PutReject
    \/ CopyPumpDone
    \/ CopyRespond

SpecCopy == InitCopy /\ [][NextCopy]_vars

\* the bytes of the object a request names as its source, as they were when
\* the request arrived (<<>> when there is none)
SourceBody ==
    IF req.source.scheme = "r2"
    THEN IF req.source.key \in DOMAIN attachments0
         THEN attachments0[req.source.key] ELSE <<>>
    ELSE GcsFetch[req.source.key].body

\* C18: when PUT /copy has answered 204, streamEncrypt has returned and the
\* put has completed, and the destination key of the backup bucket holds
\* IV || ciphertext || tag of the source object's bytes, which is
\* encryptedLength(source length) bytes long; the other objects of the backup
\* bucket are as before.
C18_CopyStoresObject ==
    status = 204 =>
        /\ hpc = "done"
        /\ pc = "exit"
        /\ outcome = "returned"
        /\ putState = "done"
        /\ req.dst \in DOMAIN backups
        /\ backups[req.dst] = WireFormat(b64decode(req.iv), SourceBody)
        /\ Len(backups[req.dst]) = encryptedLength(Len(SourceBody)).value
        /\ ~encryptedLength(Len(SourceBody)).throws
        /\ \A k \in DOMAIN backups0 \ {req.dst} :
             k \in DOMAIN backups /\ backups[k] = backups0[k]

\* a 33-byte object of the attachment bucket was copied over an object the
\* backup bucket held under the destination key
C18_Witness ==
    /\ status = 204
    /\ req.source.scheme = "r2"
    /\ Len(SourceBody) = 33
    /\ req.dst \in DOMAIN backups0
    /\ Len(backups[req.dst]) = 96

\* the status validation gives a request on arrival, 0 when it passes: 400
\* for a missing field or a key, MAC key or iv that does not decode to 32, 32
\* and 16 bytes; else 404 when the source object is absent; else 409 when
\* the source's length is known and differs from the expected one
Rejection ==
    LET decodes(field, n) ==
            b64decode(field) # <<-1>> /\ Len(b64decode(field)) = n
        absent ==
            IF req.source.scheme = "r2"
            THEN req.source.key \notin DOMAIN attachments0
            ELSE GcsFetch[req.source.key].status = 404
        actual ==
            IF req.source.scheme = "r2" THEN Len(SourceBody)
            ELSE GcsFetch[req.source.key].length
    IN  IF \/ req.missing # "none"
           \/ ~decodes(req.encryptionKey, 32)
           \/ ~decodes(req.hmacKey, 32)
           \/ ~decodes(req.iv, 16)
        THEN 400
        ELSE IF absent THEN 404
        ELSE IF actual >= 0 /\ actual # req.expectedSourceLength THEN 409
        ELSE 0

OneChunkPerCall ==
    /\ sinkState = "open"
    /\ inflight = <<>>
    /\ Len(sink) = Len(calls)
    /\ \A i \in 1..Len(calls) : calls[i][1] \in {"init", "encrypt"}

\* the chunks of the sink that encrypt calls wrote, joined in order
EmittedCiphertext ==
    LET RECURSIVE from(_)
        from(i) ==
            IF i > Len(sink) THEN <<>>
            ELSE IF calls[i][1] = "encrypt" THEN sink[i] \o from(i + 1)
            ELSE from(i + 1)
    IN  from(1)

\* C23: after every successful Encrypter.encrypt call the chaining value is
\* the last 16 bytes of all ciphertext the session has emitted so far, and
\* the original IV when it has emitted none (an encrypt call on an empty
\* buffer included); that ciphertext is the CBC encryption of the plaintexts
\* given so far without any padding block, so the chaining value never comes
\* from a discarded padding block.
C23_ChainingValue ==
    (/\ pc = "ready"
     /\ calls # <<>>
     /\ LastCall[1] = "encrypt"
     /\ outcome = "returned"
     /\ OneChunkPerCall) =>
        LET ct == EmittedCiphertext
            pt == concat(ArgsOf("encrypt"))
            chained == callerIv \o ct
        IN  /\ Len(iv) = 16
            /\ iv = SubSeq(chained, Len(chained) - 15, Len(chained))
            /\ ct = SubSeq(OneShotEncrypt(AesKey, callerIv, pt), 1, Len(pt))

\* one block was encrypted and then an empty buffer: the chaining value is
\* still the last block of the ciphertext, not the IV
C23_Witness ==
    /\ pc = "ready"
    /\ Len(calls) = 3
    /\ calls[1][1] = "init"
    /\ calls[2][1] = "encrypt"
    /\ Len(calls[2][2]) = 16
    /\ calls[3] = <<"encrypt", <<>>>>
    /\ outcome = "returned"
    /\ OneChunkPerCall
    /\ iv = sink[2]
    /\ iv # callerIv

\* ---------------------------------------------------------------------
\* The staging buffer of streamEncrypt

\* the staging buffer exists: streamEncrypt is past encrypter.init
Staging == Len(plaintext) > 0

\* the call encrypter.encrypt(writer, plaintext) has been made and offset = 0
\* has not run: the call is pending, or it threw
InFlush ==
    /\ Staging
    /\ \/ pc = "encryptW"
       \/ /\ pc \in {"finally", "exit"}
          /\ offset = Len(plaintext)

\* the buffers of the encrypt calls that have returned
Flushed ==
    LET all == ArgsOf("encrypt")
    IN  IF InFlush THEN SubSeq(all, 1, Len(all) - 1) ELSE all

\* how many source bytes the loop has copied into the staging buffer: what
\* the source delivered less what is left of the current chunk (the chunk
\* is trimmed by amtToCopy only after a flush)
Copied == srcPos - Len(chunk) + amtToCopy

\* C24: at every point of a streamEncrypt run the buffers of the encrypt
\* calls that have returned, followed by the first offset bytes of the
\* staging buffer, are the source bytes consumed so far (no byte is lost,
\* duplicated or reordered); once finish has been called, the buffers handed
\* to encrypt followed by the tail handed to finish are the whole plaintext.
C24_NoByteLostOrDuplicated ==
    /\ Staging =>
         /\ Copied \in 0..Len(sourceBytes)
         /\ concat(Flushed) \o subarray(plaintext, 0, offset)
              = SubSeq(sourceBytes, 1, Copied)
    /\ (calls # <<>> /\ LastCall[1] = "finish") =>
         concat(ArgsOf("encrypt")) \o concat(ArgsOf("finish")) = sourceBytes

\* a run that flushed the one staging buffer twice and handed a tail to finish
C24_Witness ==
    /\ Success
    /\ Len(ArgsOf("encrypt")) = 2
    /\ Len(concat(ArgsOf("finish"))) > 0
    /\ nChunks = 2

\* C25: the fill offset always satisfies 0 <= offset <= bufferSize; while
\* streamEncrypt waits for the next source chunk and when finish is called,
\* offset < bufferSize; one staging buffer of bufferSize bytes is allocated
\* per run (after init returned) and it is never replaced or resized.
C25_OffsetInBuffer ==
    [][/\ offset' \in 0..bufferSize'
       /\ pc' \in {"read", "finish", "finishW", "tagW"} =>
            /\ offset' < bufferSize'
            /\ Len(plaintext') = bufferSize'
       /\ Len(plaintext') # Len(plaintext) =>
            /\ pc = "initW"
            /\ pc' = "read"
            /\ plaintext = <<>>
            /\ Len(plaintext') = bufferSize']_vars

\* the buffer was flushed twice, by chunks that did not match its size, and
\* the loop waits for the next chunk with a partly filled buffer
C25_Witness ==
    /\ pc = "read"
    /\ Len(ArgsOf("encrypt")) = 2
    /\ offset > 0
    /\ offset < bufferSize
    /\ Len(plaintext) = bufferSize

\* C26: for every accepted bufferSize, encrypter.encrypt is called only when
\* the staging buffer is exactly full (offset = bufferSize) and is given the
\* whole buffer, whose length is a multiple of 16: the alignment failure of
\* Encrypter.encrypt is not reachable from streamEncrypt.
C26_EncryptOnlyWhenFull ==
    /\ pc \in {"encrypt", "encryptW"} =>
         /\ offset = bufferSize
         /\ Len(plaintext) = bufferSize
         /\ Aligned(plaintext)
    /\ pc = "encryptW" => LastCall = <<"encrypt", plaintext>>
    /\ \A i \in 1..Len(calls) :
         calls[i][1] = "encrypt" =>
            /\ Len(calls[i][2]) = bufferSize
            /\ Aligned(calls[i][2])

\* a 48-byte buffer was filled by two chunks and is being flushed
C26_Witness ==
    /\ pc = "encryptW"
    /\ bufferSize = 48
    /\ nChunks = 2
    /\ LastCall = <<"encrypt", SubSeq(sourceBytes, 1, 48)>>

\* C27: the inner fill/flush loop terminates and counts right. In every
\* state of the loop, bufferSize times the number of completed flushes plus
\* offset is the number of source bytes copied; the loop is left only with
\* the chunk used up and offset < bufferSize. So a chunk of n bytes that
\* arrives at offset o (F flushes done, F * bufferSize + o bytes copied) is
\* left after floor((o + n) / bufferSize) further flushes with
\* offset = (o + n) mod bufferSize. Every pass that returns to the loop head
\* has shortened the chunk, so the loop ends.
C27_FlushesPerChunk ==
    [][/\ (Staging' /\ pc' \in {"read", "fill", "encrypt", "encryptW"}) =>
            Len(Flushed') * bufferSize' + offset' = Copied'
       /\ pc' = "read" =>
            /\ chunk' = <<>>
            /\ offset' < bufferSize'
            /\ Len(ArgsOf("encrypt")') = srcPos' \div bufferSize'
            /\ offset' = srcPos' % bufferSize'
       /\ (pc' = "fill" /\ pc # "read") => Len(chunk') < Len(chunk)
       /\ (pc = "fill" /\ Len(chunk) = 0) => pc' = "read" /\ calls' = calls]_vars

\* one 49-byte chunk arrived at offset 0 of a 16-byte buffer: three flushes
\* and one byte left
C27_Witness ==
    /\ pc = "read"
    /\ bufferSize = 16
    /\ nChunks = 1
    /\ srcPos = 49
    /\ Len(ArgsOf("encrypt")) = 3
    /\ offset = 1

\* ---------------------------------------------------------------------
\* Sequencing of the Encrypter operations

\* an Encrypter operation is suspended at its write
Awaiting == pc \in {"initW", "encryptW", "finishW", "tagW"}

\* C29: at most one Encrypter operation is in progress at any time: at most
\* one write is pending and only while an operation awaits it; while an
\* operation is pending no other operation is started and no further source
\* chunk is requested, and while a flush is pending no byte of the staging
\* buffer is overwritten.
C29_OneOperationAtATime ==
    [][/\ Len(inflight') <= 1
       /\ inflight' # <<>> => Awaiting'
       /\ Awaiting =>
            /\ calls' = calls
            /\ srcPos' = srcPos
            /\ nChunks' = nChunks
       /\ pc \in {"encryptW", "finishW", "tagW"} => plaintext' = plaintext]_vars

\* a flush is pending while the current chunk has bytes left to copy and the
\* source has more to deliver
C29_Witness ==
    /\ pc = "encryptW"
    /\ Len(inflight) = 1
    /\ Len(chunk) > amtToCopy
    /\ srcPos < Len(sourceBytes)
    /\ srcState = "open"

\* C30: init is called exactly once, before any encrypt or finish; finish is
\* called at most once and no Encrypter call follows it; the MAC is finalized
\* at most once. In a successful run finish has been called (after every
\* encrypt) and the MAC has been finalized exactly once.
C30_CallOrder ==
    /\ pc \in {"initW", "read", "fill", "encrypt", "encryptW", "finish",
               "finishW", "tagW"} => calls # <<>>
    /\ \A i \in 1..Len(calls) :
         /\ calls[i][1] = "init" <=> i = 1
         /\ calls[i][1] = "finish" => i = Len(calls)
    /\ digests <= 1
    /\ digests = 1 => calls # <<>> /\ LastCall[1] = "finish"
    /\ Success =>
         /\ LastCall[1] = "finish"
         /\ digests = 1
         /\ Len(ArgsOf("init")) = 1
         /\ Len(ArgsOf("finish")) = 1

\* a successful run with two flushes before finish
C30_Witness ==
    /\ Success
    /\ Len(calls) = 4
    /\ calls[2][1] = "encrypt"
    /\ calls[3][1] = "encrypt"
    /\ digests = 1

\* ---------------------------------------------------------------------
\* Completion of streamEncrypt with a finite source and a sink that accepts

\* the runs in which nothing fails: the source does not throw, the one-shot
\* primitive resolves, the sink accepts every write and the close
NextLive ==
    \/ Create
    \/ Start
    \/ InitCall
    \/ InitResume
    \/ SourceChunk
    \/ SourceEnd
    \/ Fill
    \/ EncryptCall
    \/ EncryptResume
    \/ FinishCall
    \/ FinishResume
    \/ TagResume
    \/ Close

\* the steps of the pump that the event loop runs when they are ready
PumpStep ==
    \/ InitCall
    \/ InitResume
    \/ Fill
    \/ EncryptResume
    \/ FinishCall
    \/ TagResume
    \/ Close

\* the EncryptCall steps, told by the control point alone: EncryptCall has
\* no guard but pc = "encrypt" and always moves on
EncryptEntered == pc = "encrypt" /\ pc' \in {"encryptW", "finally"}

\* the FinishResume steps, told by the control point and the guard alone
FinishResumed == pc = "finishW" /\ sinkState = "open" /\ pc' = "tagW"

\* the event loop runs every ready continuation; the source delivers
\* finitely many chunks and then ends, so it cannot go on delivering empty
\* chunks for ever
Fairness ==
    /\ WF_vars(PumpStep)
    /\ WF_pc(EncryptEntered)
    /\ WF_pc(FinishResumed)
    /\ SF_vars(SourceChunk /\ srcPos' > srcPos)
    /\ SF_vars(SourceEnd)

SpecLive == Init /\ [][NextLive]_vars /\ Fairness

\* streamEncrypt has returned normally with the tag as the last write and
\* the sink closed, once
Completed ==
    /\ Success
    /\ sinkState = "closed"
    /\ closeCalls = 1
    /\ inflight = <<>>
    /\ digests = 1
    /\ sink # <<>>
    /\ sink[Len(sink)] = Digest(HmacKey, hmac)

\* C28: if the source delivers finitely many chunks and then ends, and the
\* sink accepts every write and the close, every streamEncrypt call whose
\* bufferSize was accepted (omitted and 0 included, both taken as the
\* default) eventually completes, having written the tag and closed the sink.
C28_Completes == (pc = "init") ~> Completed

\* a run with the default buffer size (argument omitted or 0) that flushed
\* once has completed
C28_Witness ==
    /\ Completed
    /\ bufferSize = DEFAULT_BUFFER_SIZE
    /\ Len(ArgsOf("encrypt")) = 1
    /\ nChunks = 2

\* ---------------------------------------------------------------------
\* GET /:bucketId and GET /usage

\* Object keys, prefixes and cursors are strings, written as sequences of
\* character codes 1, 2, ...; <<>> is a query parameter that is absent (or
\* empty), QueryArray one that was given more than once (a string[]).
QueryArray == <<0>>
ListKeys == {<<1>>, <<1, 1>>, <<1, 2>>, <<2>>}
Prefixes == {<<>>, <<1>>, <<1, 1>>, <<2>>, <<3>>}

\* the limit query parameter as it arrives: "" when absent, "array" when
\* given more than once
LimitParams == {"", "1", "2", "3", "2x", "x", "array"}

\* parseInt: the leading integer of the string, -1 standing for NaN
parseInt(str) ==
    CASE str = "1" -> 1
      [] str = "2" -> 2
      [] str = "3" -> 3
      [] str = "2x" -> 2
      [] OTHER -> -1

\* the buckets a listing runs on: some of the keys, each with an object
ListBuckets == UNION { [S -> Objects] : S \in SUBSET ListKeys }

\* string order: a sorts before b
KeyBefore(a, b) ==
    \E i \in 1..Len(b) :
        /\ i - 1 <= Len(a)
        /\ SubSeq(a, 1, i - 1) = SubSeq(b, 1, i - 1)
        /\ (i = Len(a) + 1 \/ a[i] < b[i])

RECURSIVE SortKeys(_)
\* the keys of a set in string order
SortKeys(S) ==
    IF S = {} THEN <<>>
    ELSE LET first == CHOOSE k \in S : \A o \in S \ {k} : KeyBefore(k, o)
         IN  <<first>> \o SortKeys(S \ {first})

\* bucket.list(options): the responses R2 may give. The objects whose key
\* starts with the prefix and sorts after the cursor, in key order, cut to a
\* page of at most limit of them (1000 when the limit is undefined, written
\* 0) and of at least one; truncated tells that objects remain after the
\* page, and the cursor then names the place to go on from
R2List(bucket, options) ==
    LET keys == SortKeys({ k \in DOMAIN bucket :
                    /\ IsPrefix(options.prefix, k)
                    /\ options.cursor = <<>> \/ KeyBefore(options.cursor, k) })
        max == Min(IF options.limit = 0 THEN 1000 ELSE options.limit, Len(keys))
    IN  { [objects |-> [i \in 1..n |->
                           [key |-> keys[i], size |-> Len(bucket[keys[i]])]],
           truncated |-> n < Len(keys),
           cursor |-> IF n < Len(keys) THEN keys[n] ELSE <<>>] :
          n \in { m \in 0..max : m = max \/ m >= 1 } }

\* the requests: GET /usage?prefix&limit and GET /:bucketId?prefix&limit&cursor
ListRequests ==
    [kind : {"usage"}, bucketId : {"backups"}, prefix : Prefixes \cup {QueryArray},
     limit : LimitParams, cursor : {<<>>}]
    \cup
    [kind : {"list"}, bucketId : BucketIds, prefix : Prefixes \cup {QueryArray},
     limit : LimitParams, cursor : {<<>>, QueryArray}]

InitList ==
    /\ hpc = "dispatch"
    /\ req \in ListRequests
    /\ status = 0
    /\ bytesDeleted = 0
    /\ putState = "none"
    /\ lenArg = 0
    /\ lenOut = [throws |-> FALSE, value |-> 0]
    /\ backups \in ListBuckets
    /\ attachments \in {EmptyBucket, [k \in {<<1, 2>>, <<2>>} |-> <<7, 7>>]}
    /\ attachments0 = attachments
    /\ backups0 = backups
    /\ head = -1
    /\ interfered = FALSE
    /\ ListIdle
    /\ sourceBytes = <<>>
    /\ PumpNew

\* what a step of the two handlers leaves alone
listFrame == <<bytesDeleted, putState, lenArg, lenOut, attachments, backups,
               attachments0, backups0, head, interfered>>

\* the limit handed to bucket.list: undefined (0) when the parameter is absent
LimitOption(str) == IF str = "" THEN 0 ELSE parseInt(str)

\* mutant: the response never carries a cursor
listHandlerNoCursor ==
    /\ hpc = "dispatch"
    /\ req.kind = "list"
    /\ IF getBucket(req.bucketId) = "undefined"
       THEN status' = 404 /\ UNCHANGED <<responseBody, listed>>
       ELSE IF \/ req.cursor = QueryArray
               \/ req.limit = "array"
               \/ req.prefix = QueryArray
               \/ (req.limit # "" /\ parseInt(req.limit) = -1)
       THEN status' = 400 /\ UNCHANGED <<responseBody, listed>>
       ELSE \E response \in R2List(Content(getBucket(req.bucketId)),
                                   [prefix |-> req.prefix, cursor |-> req.cursor,
                                    limit |-> LimitOption(req.limit)]) :
              /\ responseBody' = [cursor |-> <<>>, objects |-> response.objects]
              /\ listed' = listed \o response.objects
              /\ status' = 200
    /\ hpc' = "done"
    /\ UNCHANGED <<req, cursor, totalBytes, totalObjects, listFrame>>
    /\ UNCHANGED pumpVars

\* listHandler: 404 for an unknown bucket, 400 for a repeated parameter or a
\* limit that is not a number; else one bucket.list call, answered with the
\* key and size of its objects and with its cursor when it was truncated.
\* The client appends the page to what it has received
listHandler ==
    /\ hpc = "dispatch"
    /\ req.kind = "list"
    /\ IF getBucket(req.bucketId) = "undefined"
       THEN status' = 404 /\ UNCHANGED <<responseBody, listed>>
       ELSE IF \/ req.cursor = QueryArray
               \/ req.limit = "array"
               \/ req.prefix = QueryArray
               \/ (req.limit # "" /\ parseInt(req.limit) = -1)
       THEN status' = 400 /\ UNCHANGED <<responseBody, listed>>
       ELSE \E response \in R2List(Content(getBucket(req.bucketId)),
                                   [prefix |-> req.prefix, cursor |-> req.cursor,
                                    limit |-> LimitOption(req.limit)]) :
              /\ responseBody' =
                   [cursor |-> IF response.truncated THEN response.cursor ELSE <<>>,
                    objects |-> response.objects]
              /\ listed' = listed \o response.objects
              /\ status' = 200
    /\ hpc' = "done"
    /\ UNCHANGED <<req, cursor, totalBytes, totalObjects, listFrame>>
    /\ UNCHANGED pumpVars

\* the client asks for the next page with the cursor it was given
FollowCursor ==
    /\ hpc = "done"
    /\ req.kind = "list"
    /\ status = 200
    /\ responseBody.cursor # <<>>
    /\ req' = [req EXCEPT !.cursor = responseBody.cursor]
    /\ status' = 0
    /\ hpc' = "dispatch"
    /\ UNCHANGED <<cursor, totalBytes, totalObjects, responseBody, listed,
                   listFrame>>
    /\ UNCHANGED pumpVars

\* usageHandler up to its loop: 400 unless exactly one non-empty prefix and
\* at most one limit, a number, were given
usageHandler ==
    /\ hpc = "dispatch"
    /\ req.kind = "usage"
    /\ IF \/ req.prefix = <<>>
          \/ req.prefix = QueryArray
          \/ req.limit = "array"
          \/ (req.limit # "" /\ parseInt(req.limit) = -1)
       THEN status' = 400 /\ hpc' = "done"
       ELSE hpc' = "usageLoop" /\ UNCHANGED status
    /\ totalObjects' = 0
    /\ totalBytes' = 0
    /\ cursor' = <<>>
    /\ UNCHANGED <<req, responseBody, listed, listFrame>>
    /\ UNCHANGED pumpVars

RECURSIVE SumSizes(_, _)
\* objects.reduce((acc, obj) => acc + obj.size, acc)
SumSizes(objects, acc) ==
    IF objects = <<>> THEN acc
    ELSE SumSizes(Tail(objects), acc + Head(objects).size)

\* mutant: the handler asks for one page only
UsagePageOnce ==
    /\ hpc = "usageLoop"
    /\ \E response \in R2List(backups, [prefix |-> req.prefix, cursor |-> cursor,
                                        limit |-> LimitOption(req.limit)]) :
         /\ totalBytes' = SumSizes(response.objects, totalBytes)
         /\ totalObjects' = totalObjects + Len(response.objects)
         /\ cursor' = IF response.truncated THEN response.cursor ELSE <<>>
         /\ responseBody' =
              [bytesUsed |-> SumSizes(response.objects, totalBytes),
               numObjects |-> totalObjects + Len(response.objects)]
         /\ status' = 200
         /\ hpc' = "done"
    /\ UNCHANGED <<req, listed, listFrame>>
    /\ UNCHANGED pumpVars

\* one round of usageHandler's loop: a bucket.list call from the cursor, its
\* sizes and count added to the totals; the loop goes on while the response
\* was truncated, else the totals are the answer
UsagePage ==
    /\ hpc = "usageLoop"
    /\ \E response \in R2List(backups, [prefix |-> req.prefix, cursor |-> cursor,
                                        limit |-> LimitOption(req.limit)]) :
         /\ totalBytes' = SumSizes(response.objects, totalBytes)
         /\ totalObjects' = totalObjects + Len(response.objects)
         /\ cursor' = IF response.truncated THEN response.cursor ELSE <<>>
         /\ IF response.truncated
            THEN /\ hpc' = "usageLoop"
                 /\ UNCHANGED <<status, responseBody>>
            ELSE /\ responseBody' =
                      [bytesUsed |-> SumSizes(response.objects, totalBytes),
                       numObjects |-> totalObjects + Len(response.objects)]
                 /\ status' = 200
                 /\ hpc' = "done"
    /\ UNCHANGED <<req, listed, listFrame>>
    /\ UNCHANGED pumpVars

NextList ==
    \/ listHandler
    \/ FollowCursor
    \/ usageHandler
    \/ UsagePage

SpecList == InitList /\ [][NextList]_vars

\* C21: on a backup bucket that does not change, GET /usage?prefix=P with a
\* page limit of at least 1, or with none, answers 200 with numObjects the
\* number and bytesUsed the summed size of exactly the objects whose key
\* starts with P, however many pages the listing took (0 and 0 when no key
\* matches).
C21_UsageTotals ==
    (/\ hpc = "done"
     /\ req.kind = "usage"
     /\ req.prefix \notin {<<>>, QueryArray}
     /\ req.limit \in {"", "1", "2", "3", "2x"}) =>
        LET all == { k \in DOMAIN backups : IsPrefix(req.prefix, k) }
            RECURSIVE total(_)
            total(S) ==
                IF S = {} THEN 0
                ELSE LET k == CHOOSE x \in S : TRUE
                     IN  Len(backups[k]) + total(S \ {k})
        IN  /\ status = 200
            /\ backups = backups0
            /\ responseBody.numObjects = Cardinality(all)
            /\ responseBody.bytesUsed = total(all)

\* three objects match, a fourth does not, and the limit made three pages
C21_Witness ==
    /\ hpc = "done"
    /\ req.kind = "usage"
    /\ req.limit = "1"
    /\ req.prefix = <<1>>
    /\ DOMAIN backups = ListKeys
    /\ status = 200
    /\ responseBody.numObjects = 3
    /\ responseBody.bytesUsed = 11

\* C22: GET /:bucketId answers with a cursor exactly when objects with the
\* prefix remain after the page (the listing was truncated); a page holds at
\* most limit objects; following the cursors on a bucket that does not change
\* yields the objects with the prefix in ascending key order, each once and
\* with its size, and all of them once a response carries no cursor.
C22_ListPages ==
    (hpc = "done" /\ req.kind = "list" /\ status = 200) =>
        LET bucket == Content(getBucket(req.bucketId))
            all == { k \in DOMAIN bucket : IsPrefix(req.prefix, k) }
        IN  /\ (responseBody.cursor # <<>>) <=> (Len(listed) < Cardinality(all))
            /\ parseInt(req.limit) >= 1 =>
                  Len(responseBody.objects) <= parseInt(req.limit)
            /\ \A i \in 1..Len(listed) :
                  /\ listed[i].key \in all
                  /\ listed[i].size = Len(bucket[listed[i].key])
                  /\ \A j \in 1..(i - 1) : KeyBefore(listed[j].key, listed[i].key)
            /\ responseBody.cursor = <<>> =>
                  { listed[i].key : i \in 1..Len(listed) } = all

\* the third page of a listing with limit 1 was the last one
C22_Witness ==
    /\ hpc = "done"
    /\ req.kind = "list"
    /\ req.bucketId = "backups"
    /\ req.limit = "1"
    /\ req.prefix = <<1>>
    /\ status = 200
    /\ DOMAIN backups = ListKeys
    /\ Len(listed) = 3
    /\ responseBody.cursor = <<>>
    /\ req.cursor = <<1, 1>>

\* ---------------------------------------------------------------------
\* The arrays shared between the session, its caller and its sink

\* the chunk init handed to the sink, as it reads now: dst.write(this.iv)
\* passes the array this.iv itself, not a copy, and encrypt later writes
\* into that same array with this.iv.set(...)
IvChunk == iv

\* C31: the 16-byte chunk that init handed to the sink reads as the caller's
\* original IV whenever the consumer of the sink reads it, also after the
\* write was acknowledged and a later encrypt call advanced the chaining
\* value.
C31_IvChunkKeepsIv ==
    (/\ calls # <<>>
     /\ calls[1][1] = "init"
     /\ Len(sink) >= 1) => IvChunk = callerIv

\* A caller as above, once with a one-shot primitive that may return a buffer
\* of the wrong length, once writing into its own iv array after it
\* constructed the Encrypter

\* what a primitive that does not append exactly one padding block returns
\* for a block-aligned buffer: the ciphertext without any padding block, or
\* with a second block after it
OddLengthOutputs(cur, data) ==
    LET good == OneShotEncrypt(AesKey, cur, data)
    IN  { subarray(good, 0, Len(data)), good \o Zeros(BLOCK) }

\* Encrypter.encrypt up to its await, when the primitive returned such a
\* buffer; the call record keeps the length the primitive returned
DirectEncryptOddLength ==
    /\ CallerIdle
    /\ \E data \in DirectInputs :
         /\ Aligned(data)
         /\ \E raw \in OddLengthOutputs(iv, data) :
              /\ calls' = Append(calls, <<"encrypt", data, Len(raw)>>)
              /\ LET encrypted == TrimPadding(raw)
                 IN  IF ~SaneLength(raw, data)
                     THEN /\ outcome' = "thrown"
                          /\ UNCHANGED <<iv, inflight, pc>>
                     ELSE /\ iv' = NextIv(iv, encrypted)
                          /\ inflight' = Append(inflight, encrypted)
                          /\ pc' = "dEncryptW"
                          /\ UNCHANGED outcome
    /\ UNCHANGED <<srcVars, callerIv, hmac, digests, bufVars, err, sink,
                   sinkState, closeCalls>>
    /\ UNCHANGED hvars

\* mutant: the constructor keeps the caller's array, so the caller's write
\* lands in the chaining value
CallerWritesIvShared ==
    /\ pc \notin {"new", "createFailed"}
    /\ callerIv # Zeros(Len(callerIv))
    /\ callerIv' = Zeros(Len(callerIv))
    /\ iv' = Zeros(Len(callerIv))
    /\ UNCHANGED <<srcVars, hmac, digests, bufVars, err, outcome, pc,
                   sinkVars, calls>>
    /\ UNCHANGED hvars

\* the caller clears its iv array at some moment after construction: the
\* constructor copied it into an array of its own (this.iv = new
\* Uint8Array(16); this.iv.set(iv)), so only the caller's array changes
CallerWritesIv ==
    /\ pc \notin {"new", "createFailed"}
    /\ callerIv # Zeros(Len(callerIv))
    /\ callerIv' = Zeros(Len(callerIv))
    /\ UNCHANGED <<srcVars, iv, hmac, digests, bufVars, err, outcome, pc,
                   sinkVars, calls>>
    /\ UNCHANGED hvars

NextShared ==
    \/ Create
    \/ DirectInit
    \/ DirectInitResume
    \/ DirectEncrypt
    \/ DirectEncryptResume
    \/ DirectFinish
    \/ DirectFinishResume
    \/ DirectTagResume
    \/ DirectPrimitiveFail
    \/ DirectWriteFail
    \/ CallerWritesIv

SpecShared == InitDirect /\ [][NextShared]_vars

NextOddLength ==
    \/ Create
    \/ DirectInit
    \/ DirectInitResume
    \/ DirectEncrypt
    \/ DirectEncryptResume
    \/ DirectFinish
    \/ DirectFinishResume
    \/ DirectTagResume
    \/ DirectPrimitiveFail
    \/ DirectWriteFail
    \/ DirectEncryptOddLength

SpecOddLength == InitDirect /\ [][NextOddLength]_vars

\* C32: when the one-shot primitive returns a buffer whose length is not the
\* plaintext's length plus 16, encrypt throws having written nothing to the
\* sink and with the chaining value and the MAC accumulator as they were;
\* the primitive that pads with PKCS#7 returns that length for every
\* block-aligned plaintext, so with it the check never fails.
C32_SanityCheck ==
    [][/\ pc = "ready" =>
            \A data \in DirectInputs :
                Aligned(data) =>
                    SaneLength(OneShotEncrypt(AesKey, iv, data), data)
       /\ (/\ Len(calls') > Len(calls)
           /\ Len(LastCall') = 3
           /\ LastCall'[3] # Len(LastCall'[2]) + 16)
            => /\ outcome' = "thrown"
               /\ pc' = pc
               /\ sink' = sink
               /\ inflight' = inflight
               /\ iv' = iv
               /\ hmac' = hmac
               /\ digests' = digests]_vars

\* the check failed after init and one block had been written and the
\* chaining value had advanced
C32_Witness ==
    /\ Len(calls) = 3
    /\ Len(LastCall) = 3
    /\ outcome = "thrown"
    /\ Len(sink) = 2
    /\ iv = sink[2]
    /\ iv # sink[1]

\* C33: the caller's iv array is copied at construction; no init, encrypt or
\* finish call modifies it, and a write the caller makes to it afterwards
\* changes nothing of the session, its chaining value included.
C33_CallerIvCopied ==
    [][/\ (pc = "new" /\ pc' = "ready") => iv' = callerIv'
       /\ (pc # "new" /\ (calls' # calls \/ pc' # pc \/ sink' # sink))
            => callerIv' = callerIv
       /\ (pc # "new" /\ callerIv' # callerIv)
            => /\ iv' = iv
               /\ hmac' = hmac
               /\ inflight' = inflight
               /\ sink' = sink
               /\ calls' = calls]_vars

\* the caller cleared its array, and the session wrote the original IV and
\* chained a block from it
C33_Witness ==
    /\ callerIv = Zeros(BLOCK)
    /\ Len(sink) = 2
    /\ calls[1][1] = "init"
    /\ calls[2][1] = "encrypt"
    /\ sink[1] \in GoodIvs
    /\ sink[2] = TrimPadding(OneShotEncrypt(AesKey, sink[1], calls[2][2]))
    /\ Len(sink[2]) = BLOCK
    /\ iv = sink[2]

\* C34: for a fixed IV, keys and plaintext a successful streamEncrypt run
\* writes the same bytes under every accepted bufferSize: what it wrote is
\* what the run over the same plaintext writes with each of the other
\* staging capacities.  The capacity shows only in the split: the IV, one
\* chunk of bufferSize bytes per full buffer, the final blocks, the tag.
C34_BufferSizeIndependent ==
    Success =>
        LET sizes == { IF arg = 0 THEN DEFAULT_BUFFER_SIZE ELSE arg :
                         arg \in BufferSizeArgs }
        IN  /\ \A b \in { x \in sizes : x % 16 = 0 } :
                 Output = SingleChunkOutput(callerIv, sourceBytes, b)
            /\ Len(sink) = (L \div bufferSize) + 3
            /\ \A i \in 2..(Len(sink) - 2) : Len(sink[i]) = bufferSize

\* a successful run through the smallest buffer over a plaintext that the
\* largest buffer holds in one piece: three full buffers, written as three
\* chunks
C34_Witness ==
    /\ Success
    /\ bufferSize = 16
    /\ L >= 48
    /\ Len(sink) = 6

\* C35: also with another writer of the same key at work, the bytesDeleted
\* that DELETE /:bucketId/:id returns is the size of the object its
\* bucket.delete removed (0 when the key held nothing by then): a put or a
\* delete between the handler's head and its delete makes no difference.
C35_ReportsRemovedSize ==
    [][(hpc = "delete" /\ hpc' = "done") =>
          LET bucket == Content(getBucket(req.bucketId))
          IN  bytesDeleted' = IF req.id \in DOMAIN bucket
                              THEN Len(bucket[req.id])
                              ELSE 0]_vars

====
